---- MODULE Spec2Model ----
(***************************************************************************)
(* Model of the recommendation harvesting engine of Got-Next               *)
(* (src/server/redditServiceV2.js, src/server/aiParser.js).                *)
(*                                                                         *)
(* Text is modelled as a sequence of one-character strings, so that        *)
(* toLowerCase, trim, split, includes and the regular expressions of the   *)
(* source are computed, not assumed.                                       *)
(***************************************************************************)
EXTENDS Integers, Sequences, FiniteSets, TLC

(***************************************************************************)
(* Characters and JavaScript string primitives                             *)
(***************************************************************************)
UpperSeq == <<"A","B","C","D","E","F","G","H","I","J","K","L","M",
              "N","O","P","Q","R","S","T","U","V","W","X","Y","Z">>
LowerSeq == <<"a","b","c","d","e","f","g","h","i","j","k","l","m",
              "n","o","p","q","r","s","t","u","v","w","x","y","z">>
Upper == {UpperSeq[i] : i \in 1..26}
Lower == {LowerSeq[i] : i \in 1..26}
Letter == Upper \cup Lower
Digit == {"0","1","2","3","4","5","6","7","8","9"}
\* \s of a JavaScript regular expression, as far as the inputs use it
Ws == {" ", "\t", "\n", "\r"}
\* the characters "." of a regular expression does not match
LineEnd == {"\n", "\r"}
\* every character the modelled texts are written in
Punct == {"&", ":", "'", ".", "!", "?", "-", "(", ")", "*", "\"", ",", "_", "/", "+"}
Char == Letter \cup Digit \cup Ws \cup Punct

\* String.prototype.toLowerCase, one character
LowerChar(c) == IF c \in Upper THEN LowerSeq[CHOOSE i \in 1..26 : UpperSeq[i] = c] ELSE c
\* String.prototype.toLowerCase
ToLower(s) == [i \in 1..Len(s) |-> LowerChar(s[i])]

\* s.substring(a - 1, b): the characters a..b (1-based, inclusive)
Sub(s, a, b) == IF a > b THEN <<>> ELSE SubSeq(s, a, b)

\* String.prototype.trim
Trim(s) ==
  LET keep == {i \in 1..Len(s) : s[i] \notin Ws}
      Min(S) == CHOOSE x \in S : \A y \in S : x <= y
      Max(S) == CHOOSE x \in S : \A y \in S : x >= y
  IN IF keep = {} THEN <<>> ELSE SubSeq(s, Min(keep), Max(keep))

\* needle occurs in hay at position i
OccursAt(hay, needle, i) ==
  /\ i >= 1
  /\ i + Len(needle) - 1 <= Len(hay)
  /\ \A k \in 1..Len(needle) : hay[i + k - 1] = needle[k]

\* String.prototype.includes
Includes(hay, needle) == \E i \in 1..(Len(hay) + 1) : OccursAt(hay, needle, i)

\* the maximal runs of characters outside sep, in order
RECURSIVE Runs(_, _, _, _)
Runs(s, sep, i, cur) ==
  IF i > Len(s) THEN (IF cur = <<>> THEN <<>> ELSE <<cur>>)
  ELSE IF s[i] \in sep
       THEN (IF cur = <<>> THEN <<>> ELSE <<cur>>) \o Runs(s, sep, i + 1, <<>>)
       ELSE Runs(s, sep, i + 1, Append(cur, s[i]))

\* s.split(/\s+/): a leading or trailing separator leaves an empty first or
\* last piece, and the empty string splits to one empty piece
SplitWs(s) ==
  IF s = <<>> THEN << <<>> >>
  ELSE (IF s[1] \in Ws THEN << <<>> >> ELSE <<>>)
       \o Runs(s, Ws, 1, <<>>)
       \o (IF s[Len(s)] \in Ws THEN << <<>> >> ELSE <<>>)

\* the elements of a sequence
Range(f) == {f[i] : i \in DOMAIN f}

(***************************************************************************)
(* Regular expressions.  A pattern is a record tagged by its kind; Ends    *)
(* gives every position at which a match of the pattern starting at i can  *)
(* end, so that test() is the existence of a start with a non-empty set    *)
(* and a greedy capture is the largest end after which the rest matches.   *)
(***************************************************************************)
RChar(cs) == [t |-> "char", cs |-> cs]
RSeq(rs) == [t |-> "seq", rs |-> rs]
RAlt(rs) == [t |-> "alt", rs |-> rs]
\* r{lo,hi}; hi = -1 stands for no upper limit
RRep(r, lo, hi) == [t |-> "rep", r |-> r, lo |-> lo, hi |-> hi]
\* ^ and $; m is the regular expression's m flag
RBol(m) == [t |-> "bol", m |-> m]
REol(m) == [t |-> "eol", m |-> m]
RStar(r) == RRep(r, 0, -1)
RPlus(r) == RRep(r, 1, -1)
ROpt(r) == RRep(r, 0, 1)
\* "." of a regular expression
RDot == RChar(Char \ LineEnd)
\* a literal text, as it stands in the pattern
RLit(str) == RSeq([i \in 1..Len(str) |-> RChar({str[i]})])
\* a literal text under the i flag
RLitCI(str) ==
  RSeq([i \in 1..Len(str) |->
          RChar({c \in Char : LowerChar(c) = LowerChar(str[i])})])

RECURSIVE Ends(_, _, _), SeqEnds(_, _, _, _), RepEnds(_, _, _, _, _)
Ends(re, s, i) ==
  CASE re.t = "char" -> IF i <= Len(s) /\ s[i] \in re.cs THEN {i + 1} ELSE {}
    [] re.t = "seq" -> SeqEnds(re.rs, s, {i}, 1)
    [] re.t = "alt" -> UNION {Ends(re.rs[k], s, i) : k \in DOMAIN re.rs}
    [] re.t = "rep" -> RepEnds(re, s, {i}, 0, IF re.lo = 0 THEN {i} ELSE {})
    [] re.t = "bol" -> IF i = 1 \/ (re.m /\ i > 1 /\ s[i - 1] \in LineEnd)
                       THEN {i} ELSE {}
    [] re.t = "eol" -> IF i = Len(s) + 1 \/ (re.m /\ i <= Len(s) /\ s[i] \in LineEnd)
                       THEN {i} ELSE {}

\* the ends of rs[k], rs[k+1], ... started at any position of from
SeqEnds(rs, s, from, k) ==
  IF k > Len(rs) \/ from = {} THEN from
  ELSE SeqEnds(rs, s, UNION {Ends(rs[k], s, j) : j \in from}, k + 1)

\* from: the ends after n repetitions; acc: the ends collected so far
RepEnds(re, s, from, n, acc) ==
  IF from = {} \/ (re.hi >= 0 /\ n >= re.hi) THEN acc
  ELSE LET next == UNION {Ends(re.r, s, j) : j \in from} \ (IF n + 1 >= re.lo THEN acc ELSE {})
       IN RepEnds(re, s, next, n + 1, IF n + 1 >= re.lo THEN acc \cup next ELSE acc)

\* RegExp.prototype.test
Test(re, s) == \E i \in 1..(Len(s) + 1) : Ends(re, s, i) # {}

SetMax(S) == CHOOSE x \in S : \A y \in S : x >= y
SetMin(S) == CHOOSE x \in S : \A y \in S : x <= y

(***************************************************************************)
(* Words and phrases of the source, as texts                               *)
(***************************************************************************)
W_the == <<"t","h","e">>
W_a == <<"a">>
W_an == <<"a","n">>
W_like == <<"l","i","k","e">>
W_similar == <<"s","i","m","i","l","a","r">>
W_recommend == <<"r","e","c","o","m","m","e","n","d">>
W_suggestions == <<"s","u","g","g","e","s","t","i","o","n","s">>
W_if_you_liked_ == <<"i","f"," ","y","o","u"," ","l","i","k","e","d"," ">>
W_similar_to_ == <<"s","i","m","i","l","a","r"," ","t","o"," ">>
W_movies_like_ == <<"m","o","v","i","e","s"," ","l","i","k","e"," ">>
W__recommendations == <<" ","r","e","c","o","m","m","e","n","d","a","t","i","o","n","s">>
W_best == <<"b","e","s","t">>
W_movies_with == <<"m","o","v","i","e","s"," ","w","i","t","h">>
W_films_with == <<"f","i","l","m","s"," ","w","i","t","h">>
W_featuring == <<"f","e","a","t","u","r","i","n","g">>
W_scene == <<"s","c","e","n","e">>
W_moment == <<"m","o","m","e","n","t">>
W_great == <<"g","r","e","a","t">>
W_movies == <<"m","o","v","i","e","s">>
W_in == <<"i","n">>
W_unlike == <<"u","n","l","i","k","e">>
W_opposite == <<"o","p","p","o","s","i","t","e">>
W_different_from == <<"d","i","f","f","e","r","e","n","t"," ","f","r","o","m">>
W_not_as_good == <<"n","o","t"," ","a","s"," ","g","o","o","d">>
W_nothing_like == <<"n","o","t","h","i","n","g"," ","l","i","k","e">>
W_not_like == <<"n","o","t"," ","l","i","k","e">>
\* the absent value (null or undefined) of an optional text
NoText == <<"<null>">>

(***************************************************************************)
(* Confidence scorer: calculateMatchConfidence                             *)
(***************************************************************************)
\* the value 1.0 of a confidence; confidences are counted in 1/ConfUnit
ConfUnit == 420

\* /^(the|a|an)\s+/i
ArticleRe ==
  RSeq(<<RBol(FALSE), RAlt(<<RLitCI(W_the), RLitCI(W_a), RLitCI(W_an)>>), RPlus(RChar(Ws))>>)

\* s.replace(pattern, '') for a pattern anchored at the start of s, given the
\* ends e of its matches
DropPrefix(s, e) == IF e = {} THEN s ELSE Sub(s, SetMax(e), Len(s))

\* s.replace(/^(the|a|an)\s+/i, '')
StripArticle(s) == DropPrefix(s, Ends(ArticleRe, s, 1))

\* the overlap that counts the common words of any length
wordOverlap_AnyLength(eWords, tWords) ==
  LET common == Cardinality({w \in eWords : w \in tWords})
      larger == IF Cardinality(eWords) >= Cardinality(tWords)
                THEN Cardinality(eWords) ELSE Cardinality(tWords)
  IN (common * ConfUnit) \div (IF larger = 0 THEN 1 ELSE larger)

\* common / (Math.max(eWords.size, tWords.size) || 1)
wordOverlap(eWords, tWords) ==
  LET common == Cardinality({w \in eWords : w \in tWords /\ Len(w) > 2})
      larger == IF Cardinality(eWords) >= Cardinality(tWords)
                THEN Cardinality(eWords) ELSE Cardinality(tWords)
  IN (common * ConfUnit) \div (IF larger = 0 THEN 1 ELSE larger)

\* cleanE and cleanT: the two titles without a leading article
cleanConfidence(cleanE, cleanT) ==
  IF cleanE = cleanT THEN (95 * ConfUnit) \div 100
  ELSE wordOverlap(Range(SplitWs(cleanE)), Range(SplitWs(cleanT)))

\* the scorer without its test e === t
trimmedConfidence_NoExact(e, t) == cleanConfidence(StripArticle(e), StripArticle(t))

\* e and t: the two titles lower-cased and trimmed
trimmedConfidence(e, t) ==
  IF e = t THEN ConfUnit ELSE cleanConfidence(StripArticle(e), StripArticle(t))

\* the scorer without its guard against a missing or empty argument
calculateMatchConfidence_NoGuard(extracted, tmdbTitle) ==
  trimmedConfidence(Trim(ToLower(extracted)), Trim(ToLower(tmdbTitle)))

calculateMatchConfidence(extracted, tmdbTitle) ==
  IF extracted = <<>> \/ extracted = NoText \/ tmdbTitle = <<>> \/ tmdbTitle = NoText THEN 0
  ELSE trimmedConfidence(Trim(ToLower(extracted)), Trim(ToLower(tmdbTitle)))

(***************************************************************************)
(* Post relevance filter: calculatePostRelevance                           *)
(***************************************************************************)
\* /\s*\(\d{4}\)\s*$/
YearSuffixRe ==
  RSeq(<<RStar(RChar(Ws)), RChar({"("}), RRep(RChar(Digit), 4, 4), RChar({")"}),
         RStar(RChar(Ws)), REol(FALSE)>>)

\* s without its part from the first of the positions starts on
CutAt(s, starts) == IF starts = {} THEN s ELSE Sub(s, 1, SetMin(starts) - 1)

\* s.replace(/\s*\(\d{4}\)\s*$/, '').trim(): the leftmost match is removed
StripYearSuffix(s) ==
  Trim(CutAt(s, {i \in 1..(Len(s) + 1) : Ends(YearSuffixRe, s, i) # {}}))

\* a.*b
RThen(a, b) == RSeq(<<a, RStar(RDot), b>>)

\* The kill patterns, built by inserting the lower-cased title into the
\* pattern text (q is the pattern the inserted text makes).  The titles of the
\* model hold letters, digits and blanks only, for which the inserted text is
\* a literal.
killPatternsOf(q) ==
  << RThen(RLitCI(W_best), RLitCI(W_movies_with)),
     RThen(RLitCI(W_movies_with), q),
     RThen(RLitCI(W_films_with), q),
     RThen(RLitCI(W_featuring), q),
     RThen(q, RSeq(<<RLitCI(W_scene), ROpt(RChar({"s", "S"}))>>)),
     RThen(q, RSeq(<<RLitCI(W_moment), ROpt(RChar({"s", "S"}))>>)),
     RSeq(<<RLitCI(W_great), RStar(RDot), q, RStar(RDot), RLitCI(W_movies)>>),
     RSeq(<<q, RStar(RDot), RLitCI(W_in), RStar(RDot), RLitCI(W_movies)>>) >>
killPatterns(queryLower) == killPatternsOf(RLitCI(queryLower))

\* for (const pattern of killPatterns) if (new RegExp(pattern, 'i').test(titleLower))
anyTest(patterns, text) == \E k \in DOMAIN patterns : Test(patterns[k], text)

badKeywords ==
  <<W_unlike, W_opposite, W_different_from, W_not_as_good, W_nothing_like, W_not_like>>

\* the value returned for a post that is rejected outright
Sentinel == -1000

\* the score without the test of the kill patterns
relevanceOf_NoKill(titleLower, queryLower, year) ==
  LET hasContext == \/ Includes(titleLower, W_like)
                    \/ Includes(titleLower, W_similar)
                    \/ Includes(titleLower, W_recommend)
      hasTitle == Includes(titleLower, queryLower)
      quoted == IF Includes(titleLower, <<"\"">> \o queryLower \o <<"\"">>) /\ hasContext
                THEN 200 ELSE 0
      hasYear == year # NoText /\ year # <<>> /\ Includes(titleLower, year)
      yearly == IF hasYear /\ hasTitle /\ hasContext THEN 150
                ELSE IF hasYear /\ hasTitle THEN 20 ELSE 0
      phrases == (IF Includes(titleLower, W_if_you_liked_ \o queryLower) THEN 100 ELSE 0)
               + (IF Includes(titleLower, W_similar_to_ \o queryLower) THEN 90 ELSE 0)
               + (IF Includes(titleLower, W_movies_like_ \o queryLower) THEN 85 ELSE 0)
               + (IF Includes(titleLower, queryLower \o W__recommendations) THEN 80 ELSE 0)
               + (IF Includes(titleLower, W_like) THEN 30 ELSE 0)
               + (IF Includes(titleLower, W_recommend) THEN 25 ELSE 0)
               + (IF Includes(titleLower, W_suggestions) THEN 20 ELSE 0)
      bad == Cardinality({k \in DOMAIN badKeywords : Includes(titleLower, badKeywords[k])})
  IN IF ~hasTitle THEN Sentinel
     ELSE quoted + yearly + phrases - 500 * bad

\* the score without the return of line 354
relevanceOf_NoContainment(titleLower, queryLower, year) ==
  LET hasContext == \/ Includes(titleLower, W_like)
                    \/ Includes(titleLower, W_similar)
                    \/ Includes(titleLower, W_recommend)
      hasTitle == Includes(titleLower, queryLower)
      quoted == IF Includes(titleLower, <<"\"">> \o queryLower \o <<"\"">>) /\ hasContext
                THEN 200 ELSE 0
      hasYear == year # NoText /\ year # <<>> /\ Includes(titleLower, year)
      yearly == IF hasYear /\ hasTitle /\ hasContext THEN 150
                ELSE IF hasYear /\ hasTitle THEN 20 ELSE 0
      bad == Cardinality({k \in DOMAIN badKeywords : Includes(titleLower, badKeywords[k])})
  IN IF anyTest(killPatterns(queryLower), titleLower) THEN Sentinel
     ELSE quoted + yearly
          + (IF Includes(titleLower, W_like) THEN 30 ELSE 0)
          + (IF Includes(titleLower, W_recommend) THEN 25 ELSE 0)
          + (IF Includes(titleLower, W_suggestions) THEN 20 ELSE 0)
          - 500 * bad

\* the score of a post title, both texts lower-cased
relevanceOf(titleLower, queryLower, year) ==
  LET hasContext == \/ Includes(titleLower, W_like)
                    \/ Includes(titleLower, W_similar)
                    \/ Includes(titleLower, W_recommend)
      hasTitle == Includes(titleLower, queryLower)
      quoted == IF Includes(titleLower, <<"\"">> \o queryLower \o <<"\"">>) /\ hasContext
                THEN 200 ELSE 0
      hasYear == year # NoText /\ year # <<>> /\ Includes(titleLower, year)
      yearly == IF hasYear /\ hasTitle /\ hasContext THEN 150
                ELSE IF hasYear /\ hasTitle THEN 20 ELSE 0
      phrases == (IF Includes(titleLower, W_if_you_liked_ \o queryLower) THEN 100 ELSE 0)
               + (IF Includes(titleLower, W_similar_to_ \o queryLower) THEN 90 ELSE 0)
               + (IF Includes(titleLower, W_movies_like_ \o queryLower) THEN 85 ELSE 0)
               + (IF Includes(titleLower, queryLower \o W__recommendations) THEN 80 ELSE 0)
               + (IF Includes(titleLower, W_like) THEN 30 ELSE 0)
               + (IF Includes(titleLower, W_recommend) THEN 25 ELSE 0)
               + (IF Includes(titleLower, W_suggestions) THEN 20 ELSE 0)
      bad == Cardinality({k \in DOMAIN badKeywords : Includes(titleLower, badKeywords[k])})
  IN IF ~hasTitle THEN Sentinel
     ELSE IF anyTest(killPatterns(queryLower), titleLower) THEN Sentinel
     ELSE quoted + yearly + phrases - 500 * bad

calculatePostRelevance(postTitle, searchMovieTitle, year) ==
  relevanceOf(ToLower(postTitle), ToLower(StripYearSuffix(searchMovieTitle)), year)

(***************************************************************************)
(* Pattern strategy of extractRecommendationsFromPost: the candidates      *)
(***************************************************************************)
\* [A-Za-z0-9\s&:'.!?-]
TitleCls == Letter \cup Digit \cup Ws \cup {"&", ":", "'", ".", "!", "?", "-"}

\* [A-Z][A-Za-z0-9\s&:'.!?-]{lo,hi}; under the i flag [A-Z] is any letter
TitleRe(lo, hi, ci) ==
  RSeq(<<RChar(IF ci THEN Letter ELSE Upper), RRep(RChar(TitleCls), lo, hi)>>)

\* \s*\((\d{4})\)
YearTailRe ==
  RSeq(<<RStar(RChar(Ws)), RChar({"("}), RRep(RChar(Digit), 4, 4), RChar({")"})>>)

REmpty == RSeq(<<>>)
NoMatch == [found |-> FALSE]

\* The pattern pre(grp)post on s.  groupEnds: where the group started at g can
\* end with the rest of the pattern matching after it; groupStarts: where the
\* group can start for a match started at i
groupEnds(grp, post, s, g) == {k \in Ends(grp, s, g) : Ends(post, s, k) # {}}
groupStarts(pre, grp, post, s, i) ==
  {g \in Ends(pre, s, i) : groupEnds(grp, post, s, g) # {}}

\* the match whose group is g..k-1; e is the position after the match
matchOf(post, s, g, k) == [found |-> TRUE, g |-> g, k |-> k, e |-> SetMax(Ends(post, s, k))]
\* the quantifiers are greedy: the longest prefix, then the longest group
matchFrom(grp, post, s, g) == matchOf(post, s, g, SetMax(groupEnds(grp, post, s, g)))
\* the leftmost start wins
matchAmong(pre, grp, post, s, starts) ==
  IF starts = {} THEN NoMatch
  ELSE matchFrom(grp, post, s, SetMax(groupStarts(pre, grp, post, s, SetMin(starts))))

\* RegExp.prototype.exec of the pattern pre(grp)post on s from position from:
\* g..k-1 is the captured group and e the position after the match
Exec(pre, grp, post, s, from) ==
  matchAmong(pre, grp, post, s,
             {i \in from..(Len(s) + 1) : groupStarts(pre, grp, post, s, i) # {}})

\* every match of a g-flagged pattern, in order: exec until null, each search
\* starting where the last match ended
RECURSIVE ExecAll(_, _, _, _, _), ExecMore(_, _, _, _, _, _)
ExecAll(pre, grp, post, s, from) ==
  IF from > Len(s) + 1 THEN <<>>
  ELSE ExecMore(Exec(pre, grp, post, s, from), pre, grp, post, s, from)

\* m is the match found from position from
ExecMore(m, pre, grp, post, s, from) ==
  IF ~m.found THEN <<>>
  ELSE <<m>> \o ExecAll(pre, grp, post, s, IF m.e > from THEN m.e ELSE from + 1)

\* the candidate set (a Set keeps insertion order) and the year map
NoCandidates == [titles |-> <<>>, years |-> <<>>]

\* potentialTitles.add(title), and titlesWithYears.set(title, year) when a
\* year was captured (year # NoText)
AddCandidate(c, title, year) ==
  [titles |-> IF title \in Range(c.titles) THEN c.titles ELSE Append(c.titles, title),
   years |-> IF year = NoText THEN c.years
             ELSE [x \in DOMAIN c.years \cup {title} |->
                     IF x = title THEN year ELSE c.years[x]]]

\* titlesWithYears.get(title)
YearOf(c, title) == IF title \in DOMAIN c.years THEN c.years[title] ELSE NoText

\* one line of text.split(/[\n\r]+/).forEach, after line.trim(); withYear is
\* the match of /^([A-Z][...]{2,49})\s*\((\d{4})\)$/ on it
AddLine(c, trimmed, withYear) ==
  IF Len(trimmed) < 3 THEN c
  ELSE IF withYear.found /\ withYear.g = 1
  THEN AddCandidate(c, Trim(Sub(trimmed, 1, withYear.k - 1)),
                    Sub(trimmed, withYear.e - 5, withYear.e - 2))
  ELSE IF Ends(RSeq(<<RBol(FALSE), TitleRe(2, 49, FALSE), REol(FALSE)>>), trimmed, 1) # {}
  THEN AddCandidate(c, trimmed, NoText)
  ELSE c

AddTrimmedLine(c, trimmed) ==
  AddLine(c, trimmed,
          Exec(RBol(FALSE), TitleRe(2, 49, FALSE), RSeq(<<YearTailRe, REol(FALSE)>>), trimmed, 1))

\* text.split(/[\n\r]+/).forEach(line => ...)
RECURSIVE AddLines(_, _, _)
AddLines(c, lines, n) ==
  IF n > Len(lines) THEN c
  ELSE AddLines(AddTrimmedLine(c, Trim(lines[n])), lines, n + 1)

\* while ((match = pattern.exec(text)) !== null) potentialTitles.add(match[1].trim())
RECURSIVE AddMatches(_, _, _, _, _)
AddMatches(c, text, ms, n, withYear) ==
  IF n > Len(ms) THEN c
  ELSE AddMatches(AddCandidate(c, Trim(Sub(text, ms[n].g, ms[n].k - 1)),
                               IF withYear THEN Sub(text, ms[n].e - 5, ms[n].e - 2)
                               ELSE NoText),
                  text, ms, n + 1, withYear)

W_watch == <<"w","a","t","c","h">>
W_try == <<"t","r","y">>
W_check_out == <<"c","h","e","c","k"," ","o","u","t">>
W_see == <<"s","e","e">>
W_loved == <<"l","o","v","e","d">>

\* /^[\s]*[-*]\s*([A-Z][...]{2,49})/gm  (the bullet sign U+2022 of the source's
\* class is not a character of the modelled texts)
bulletPre == RSeq(<<RBol(TRUE), RStar(RChar(Ws)), RChar({"-", "*"}), RStar(RChar(Ws))>>)
\* /^\d+[\.\)]\s*([A-Z][...]{2,49})/gm
numberedPre == RSeq(<<RBol(TRUE), RPlus(RChar(Digit)), RChar({".", ")"}), RStar(RChar(Ws))>>)
\* /\*\*([A-Z][...]{2,50})\*\*/g
boldMark == RLit(<<"*", "*">>)
\* /"([A-Z][...]{2,50})"/g
quoteMark == RChar({"\""})
\* /(?:watch|try|recommend|check out|see|loved)\s+([A-Z][...]{3,40})/gi
actionPre ==
  RSeq(<<RAlt(<<RLitCI(W_watch), RLitCI(W_try), RLitCI(W_recommend),
                RLitCI(W_check_out), RLitCI(W_see), RLitCI(W_loved)>>),
         RPlus(RChar(Ws))>>)

\* the six g-flagged patterns in the order the source runs them; withYear
\* tells the pattern whose second group is the year
titlePatterns ==
  << [pre |-> bulletPre, grp |-> TitleRe(2, 49, FALSE), post |-> REmpty, withYear |-> FALSE],
     [pre |-> numberedPre, grp |-> TitleRe(2, 49, FALSE), post |-> REmpty, withYear |-> FALSE],
     [pre |-> boldMark, grp |-> TitleRe(2, 50, FALSE), post |-> boldMark, withYear |-> FALSE],
     [pre |-> REmpty, grp |-> TitleRe(2, 50, FALSE), post |-> YearTailRe, withYear |-> TRUE],
     [pre |-> quoteMark, grp |-> TitleRe(2, 50, FALSE), post |-> quoteMark, withYear |-> FALSE],
     [pre |-> actionPre, grp |-> TitleRe(3, 40, TRUE), post |-> REmpty, withYear |-> FALSE] >>

RECURSIVE AddPatterns(_, _, _, _)
AddPatterns(c, text, patterns, n) ==
  IF n > Len(patterns) THEN c
  ELSE AddPatterns(AddMatches(c, text,
                              ExecAll(patterns[n].pre, patterns[n].grp, patterns[n].post,
                                      text, 1),
                              1, patterns[n].withYear),
                   text, patterns, n + 1)

\* potentialTitles and titlesWithYears after the lines and the six patterns
potentialTitles(text) ==
  AddPatterns(AddLines(NoCandidates, Runs(text, LineEnd, 1, <<>>), 1), text, titlePatterns, 1)

skipPhrases ==
  {<<"r","e","d","d","i","t">>, <<"e","d","i","t">>,
   <<"t","h","a","n","k","s">>, <<"u","p","d","a","t","e">>,
   <<"t","h","r","e","a","d">>, <<"s","u","b","r","e","d","d","i","t">>,
   <<"t","h","e"," ","m","o","v","i","e">>,
   <<"t","h","e"," ","f","i","l","m">>,
   <<"t","h","i","s"," ","m","o","v","i","e">>,
   <<"t","h","a","t"," ","m","o","v","i","e">>,
   <<"a","n","y"," ","m","o","v","i","e">>,
   <<"s","o","m","e"," ","m","o","v","i","e">>,
   <<"s","o","m","e","t","h","i","n","g"," ","l","i","k","e">>}

singleWordTitles ==
  {<<"u","p">>, <<"h","e","r">>, <<"i","t">>,
   <<"a","r","r","i","v","a","l">>, <<"d","u","n","k","i","r","k">>,
   <<"f","r","o","z","e","n">>, <<"t","a","n","g","l","e","d">>,
   <<"b","r","a","v","e">>, <<"c","o","c","o">>, <<"s","o","u","l">>,
   <<"c","a","r","s">>, <<"w","i","l","l","o","w">>, <<"e","l","f">>,
   <<"j","a","w","s">>, <<"a","l","i","e","n">>, <<"r","o","c","k","y">>,
   <<"h","a","l","l","o","w","e","e","n">>, <<"s","c","r","e","a","m">>,
   <<"s","a","w">>, <<"t","h","e","m">>, <<"u","s">>, <<"h","e","a","t">>,
   <<"d","r","i","v","e">>, <<"g","o","n","e">>,
   <<"g","r","a","v","i","t","y">>, <<"h","u","g","o">>,
   <<"s","u","p","e","r">>, <<"w","a","n","t","e","d">>,
   <<"s","p","l","i","t">>, <<"n","e","r","v","e">>,
   <<"b","r","i","g","h","t">>, <<"a","n","o","n">>, <<"m","u","t","e">>,
   <<"l","i","f","e">>, <<"j","o","y">>, <<"w","h","i","p","l","a","s","h">>,
   <<"b","a","b","y">>, <<"r","u","s","h">>, <<"c","h","e","f">>,
   <<"l","i","m","i","t","l","e","s","s">>, <<"w","a","r","r","i","o","r">>,
   <<"c","o","n","t","a","c","t">>,
   <<"u","n","f","o","r","g","i","v","e","n">>,
   <<"c","o","l","l","a","t","e","r","a","l">>, <<"c","r","a","s","h">>,
   <<"s","i","d","e","w","a","y","s">>,
   <<"b","a","r","b","a","r","i","a","n">>,
   <<"s","n","o","w","f","a","l","l">>,
   <<"s","e","r","e","n","d","i","p","i","t","y">>}

\* /\s*\([^)]*\)\s*/
ParenRe ==
  RSeq(<<RStar(RChar(Ws)), RChar({"("}), RStar(RChar(Char \ {")"})), RChar({")"}),
         RStar(RChar(Ws))>>)

\* t.replace(/\s*\([^)]*\)\s*/g, ''); m is the match found from position from
RECURSIVE StripParens(_, _), StripMore(_, _, _)
StripParens(s, from) == StripMore(s, from, Exec(REmpty, ParenRe, REmpty, s, from))
StripMore(s, from, m) ==
  IF ~m.found THEN Sub(s, from, Len(s))
  ELSE Sub(s, from, m.g - 1) \o StripParens(s, m.k)

\* the filter on the candidates (the callback of Array.prototype.filter)
keepCandidate(title, originalTitle) ==
  LET lower == ToLower(title)
      orig == ToLower(originalTitle)
      cleaned == Trim(StripParens(title, 1))
      words == SplitWs(Trim(title))
  IN /\ ~(lower = orig \/ Includes(lower, orig) \/ Includes(orig, lower))
     /\ Len(cleaned) >= 2
     /\ lower \notin skipPhrases
     /\ ~(Len(words) < 2 /\ lower \notin singleWordTitles)
     /\ Test(RRep(RChar(Letter), 2, -1), title)

\* Array.prototype.filter
RECURSIVE FilterTitles(_, _, _)
FilterTitles(titles, originalTitle, n) ==
  IF n > Len(titles) THEN <<>>
  ELSE (IF keepCandidate(titles[n], originalTitle) THEN <<titles[n]>> ELSE <<>>)
       \o FilterTitles(titles, originalTitle, n + 1)

\* the most candidates one extraction validates: filtered.slice(0, 20)
MaxTitlesToProcess == 20

\* filtered.slice(0, 20)
firstTitles(filtered) ==
  Sub(filtered, 1, IF Len(filtered) < MaxTitlesToProcess
                   THEN Len(filtered) ELSE MaxTitlesToProcess)

\* titlesWithYears.get(title) for each title that is validated
withYears(c, kept) == [n \in 1..Len(kept) |-> [title |-> kept[n], year |-> YearOf(c, kept[n])]]

\* titlesToProcess with the year of each: what the pattern strategy validates
candidatesToProcess(c, originalTitle) ==
  withYears(c, firstTitles(FilterTitles(c.titles, originalTitle, 1)))
titlesToProcess(text, originalTitle) == candidatesToProcess(potentialTitles(text), originalTitle)

(***************************************************************************)
(* Metadata validator: searchAndValidateTMDB and getCached                 *)
(***************************************************************************)
T_Arrival == <<"A","r","r","i","v","a","l">>
T_Annihilation == <<"A","n","n","i","h","i","l","a","t","i","o","n">>
T_Contact == <<"C","o","n","t","a","c","t">>
T_Heat == <<"H","e","a","t">>
T_BladeRunner == <<"B","l","a","d","e"," ","R","u","n","n","e","r">>
D_2016 == <<"2","0","1","6","-","1","1","-","1","1">>
D_2018 == <<"2","0","1","8","-","0","2","-","2","3">>
D_1997 == <<"1","9","9","7","-","0","7","-","1","1">>
D_1995 == <<"1","9","9","5","-","1","2","-","1","5">>
D_1982 == <<"1","9","8","2","-","0","6","-","2","5">>
D_2009 == <<"2","0","0","9","-","0","3","-","0","1">>
Y_1997 == <<"1","9","9","7">>
Y_2016 == <<"2","0","1","6">>
Y_2009 == <<"2","0","0","9">>
Y_1995 == <<"1","9","9","5">>
K_tmdb_ == <<"t","m","d","b","_">>
K_movie == <<"m","o","v","i","e">>
K_tv == <<"t","v">>
K_reddit_recs_ == <<"r","e","d","d","i","t","_","r","e","c","s","_">>

ContentType == {"movie", "tv"}
\* the content type as it is written into a cache key
CtText(contentType) == IF contentType = "tv" THEN K_tv ELSE K_movie

\* A result of the catalog's search endpoint.  A movie carries title and
\* release_date, a show name and first_air_date; NoText is an absent field.
\* vote_average is counted in tenths.
CatalogResult(id, title, name, poster, vote, released, aired) ==
  [id |-> id, title |-> title, name |-> name, poster_path |-> poster,
   vote_average |-> vote, release_date |-> released, first_air_date |-> aired]

\* a text field is truthy: present and not empty
Truthy(x) == x # NoText /\ x # <<>>

\* date.split('-')[0]
YearPart(date) ==
  LET dashes == {i \in 1..Len(date) : date[i] = "-"}
  IN IF dashes = {} THEN date ELSE Sub(date, 1, SetMin(dashes) - 1)

\* filterResults without the poster test
RECURSIVE filterResults_NoPoster(_, _, _)
filterResults_NoPoster(results, contentType, n) ==
  IF n > Len(results) THEN <<>>
  ELSE LET m == results[n]
           hasTitle == IF contentType = "tv" THEN m.name ELSE m.title
       IN (IF Truthy(hasTitle) /\ m.vote_average >= 0 THEN <<m>> ELSE <<>>)
          \o filterResults_NoPoster(results, contentType, n + 1)

\* Array.prototype.filter, for the callback of lines 89-92
RECURSIVE filterResults(_, _, _)
filterResults(results, contentType, n) ==
  IF n > Len(results) THEN <<>>
  ELSE LET m == results[n]
           hasTitle == IF contentType = "tv" THEN m.name ELSE m.title
       IN (IF Truthy(hasTitle) /\ m.poster_path /\ m.vote_average > 0 THEN <<m>> ELSE <<>>)
          \o filterResults(results, contentType, n + 1)

\* the release year the year match reads: release_date only
releaseYearOf(m) == IF Truthy(m.release_date) THEN YearPart(m.release_date) ELSE NoText

\* results.filter(m => m.id !== id)
RECURSIVE withoutId(_, _, _)
withoutId(results, id, n) ==
  IF n > Len(results) THEN <<>>
  ELSE (IF results[n].id # id THEN <<results[n]>> ELSE <<>>) \o withoutId(results, id, n + 1)

\* the most entries validate returns: slice(0, 3)
MaxValidated == 3

\* Array.prototype.slice(0, n)
Slice(list, n) == Sub(list, 1, IF Len(list) < n THEN Len(list) ELSE (IF n < 0 THEN 0 ELSE n))

\* the fetcher of searchAndValidateTMDB on a response of the catalog
validatedResults(response, year, contentType) ==
  LET results == filterResults(response, contentType, 1)
      hits == {n \in 1..Len(results) : releaseYearOf(results[n]) = year}
  IN IF Truthy(year) /\ Len(results) > 0 /\ hits # {}
     THEN LET exactYearMatch == results[SetMin(hits)]
          IN Slice(<<exactYearMatch>> \o withoutId(results, exactYearMatch.id, 1), MaxValidated)
     ELSE Slice(results, MaxValidated)

\* the cache key of a validation
tmdbCacheKey(title, year, contentType) ==
  K_tmdb_ \o CtText(contentType) \o <<"_">> \o ToLower(title)
    \o (IF Truthy(year) THEN <<"_">> \o year ELSE <<>>)

\* this.cacheExpiry, in hours
cacheExpiry == 24

\* a field the constructor never assigned
Undefined == "undefined"

\* this.cache is a record: defined tells whether the constructor created the
\* Map, entries is the Map (key -> [data, timestamp])
NoCache == [defined |-> FALSE, entries |-> <<>>]
EmptyCache == [defined |-> TRUE, entries |-> <<>>]

\* getCached that never lets an entry expire
cacheHit_NoExpiry(c, key, time) == key \in DOMAIN c.entries

\* getCached finds a live entry: cached && Date.now() - cached.timestamp < cacheExpiry
cacheHit(c, key, time) ==
  key \in DOMAIN c.entries /\ time - c.entries[key].timestamp < cacheExpiry

\* a cache.set that stores the entry without the data fetched
cacheSet_NoData(c, key, data, time) ==
  [c EXCEPT !.entries =
     [k \in DOMAIN c.entries \cup {key} |->
        IF k = key THEN [data |-> <<>>, timestamp |-> time] ELSE c.entries[k]]]

\* this.cache.set(key, {data, timestamp: Date.now()})
cacheSet(c, key, data, time) ==
  [c EXCEPT !.entries =
     [k \in DOMAIN c.entries \cup {key} |->
        IF k = key THEN [data |-> data, timestamp |-> time] ELSE c.entries[k]]]

\* getCached(key, fetcher) on a cache that exists, the fetcher resolving to
\* data when it is called: the result, the cache left, and whether the fetcher
\* ran.
getCached(c, key, time, data) ==
  IF cacheHit(c, key, time)
  THEN [threw |-> FALSE, data |-> c.entries[key].data, cache |-> c, queried |-> FALSE]
  ELSE [threw |-> FALSE, data |-> data, cache |-> cacheSet(c, key, data, time),
        queried |-> TRUE]

\* searchAndValidateTMDB whose failed query leaves no entry in the cache
searchAndValidateTMDB_FailureNotCached(c, time, title, year, contentType, response, failed) ==
  IF ~Truthy(title)
  THEN [threw |-> FALSE, data |-> <<>>, cache |-> c, queried |-> FALSE]
  ELSE IF ~c.defined
  THEN [threw |-> TRUE, data |-> <<>>, cache |-> c, queried |-> FALSE]
  ELSE IF failed /\ ~cacheHit(c, tmdbCacheKey(title, year, contentType), time)
  THEN [threw |-> FALSE, data |-> <<>>, cache |-> c, queried |-> TRUE]
  ELSE getCached(c, tmdbCacheKey(title, year, contentType), time,
                 validatedResults(response, year, contentType))

\* What a call of searchAndValidateTMDB does on an engine whose cache is c at
\* time `time`, when the catalog would answer `response`, or would fail with a
\* transport or parse error (failed): whether the call threw, what it resolved
\* to, the cache it leaves and whether the catalog was queried.
searchAndValidateTMDB(c, time, title, year, contentType, response, failed) ==
  IF ~Truthy(title)
  THEN [threw |-> FALSE, data |-> <<>>, cache |-> c, queried |-> FALSE]
  ELSE IF ~c.defined
  THEN [threw |-> TRUE, data |-> <<>>, cache |-> c, queried |-> FALSE]
  ELSE getCached(c, tmdbCacheKey(title, year, contentType), time,
                 IF failed THEN <<>> ELSE validatedResults(response, year, contentType))

(***************************************************************************)
(* The engine                                                              *)
(***************************************************************************)
VARIABLES
  reddit,    \* this.reddit: "client" or "null"
  cache,     \* this.cache: [defined, entries: key -> [data, timestamp]]
  aiParser,  \* this.aiParser: Undefined, "off" (no API key) or "on"
  now,       \* Date.now(), in hours
  backend,   \* the discussion platform behind this.reddit
  memo,      \* values of the text functions on the platform's texts
  vin,       \* the arguments of a direct call of searchAndValidateTMDB and
             \* the answer the catalog gives to its query
  vret,      \* the outcome of the last direct call
  call,      \* the harvest call in progress: [kind, movieTitle, limit, contentType]
  pc,        \* where the harvest call stands
  originalGenres,  \* genre ids of the harvested title (<<>>: null or none)
  releaseYear,     \* its release year (NoText: null)
  allResults,      \* the posts found so far
  subIdx,          \* the community being searched
  i,               \* the first post of the batch (from 0)
  shouldStop,      \* the stop flag the members of all batches share
  postsProcessed,  \* batches done
  recommendations, \* the Map id -> record, as the list of its values
  tasks,           \* the members of the batch in progress (Promise.all)
  postIdx,         \* comprehensive harvest: the post being read
  ret,       \* what the latest harvest call resolved to, once it has
  faultsLeft,    \* failures of external calls the environment may still cause
  faulted,   \* the kinds of external call that failed during this call
  issued,    \* the kinds of external call issued during this call
  callsLeft      \* harvest calls the callers may still make

engineVars == <<reddit, cache, aiParser, now>>

\* The constructor.  With a credential missing it returns before the cache and
\* the AI parser are created; when the client's constructor throws, the catch
\* block sets reddit to null and construction goes on.
Constructed(credentials, groqKey) ==
  /\ reddit = (IF credentials = "complete" THEN "client" ELSE "null")
  /\ cache = (IF credentials = "missing" THEN NoCache ELSE EmptyCache)
  /\ aiParser = (IF credentials = "missing" THEN Undefined
                 ELSE IF groqKey THEN "on" ELSE "off")
  /\ now = 0

\* how the construction can go: the credentials complete, one missing, or
\* complete but refused by the client's constructor
Credentials == {"complete", "missing", "rejected"}

\* isAvailable() that looks at nothing
isAvailable_Always == TRUE

isAvailable == reddit # "null"

\* this.aiParser && this.aiParser.isAvailable()
aiAvailable == aiParser = "on"

\* the clock advances by this many hours in one step
TickHours == 12
\* the clock is followed up to this many steps
MaxTicks == 2

Tick ==
  /\ now < MaxTicks * TickHours
  /\ now' = now + TickHours
  /\ UNCHANGED <<reddit, cache, aiParser>>

\* no harvest call in progress; the latest call has not returned (or none was made)
NoHarvest == [kind |-> "none"]
NoReturn == [done |-> FALSE]

\* the locals of a harvest call
locals ==
  <<originalGenres, releaseYear, allResults, subIdx, i, shouldStop, postsProcessed,
    recommendations, tasks, postIdx>>

harvestVars == <<call, pc, locals, ret, faultsLeft, faulted, issued, callsLeft>>

\* no harvest call is in progress
Idle ==
  /\ call = NoHarvest
  /\ pc = "idle"
  /\ originalGenres = <<>>
  /\ releaseYear = NoText
  /\ allResults = <<>>
  /\ subIdx = 0
  /\ i = 0
  /\ shouldStop = FALSE
  /\ postsProcessed = 0
  /\ recommendations = <<>>
  /\ tasks = <<>>
  /\ postIdx = 0
  /\ faulted = {}
  /\ issued = {}

\* no harvest call was ever made
NeverCalled == Idle /\ ret = NoReturn

(***************************************************************************)
(* Direct calls of the validator, on answers drawn from a pool of catalog  *)
(* results                                                                 *)
(***************************************************************************)
T_ContactHigh == <<"C","o","n","t","a","c","t"," ","H","i","g","h">>
T_FirstContact == <<"F","i","r","s","t"," ","C","o","n","t","a","c","t">>
T_ContactPoint == <<"C","o","n","t","a","c","t"," ","P","o","i","n","t">>

VPool ==
  { CatalogResult(3, T_Contact, NoText, TRUE, 74, D_1997, NoText),
    CatalogResult(6, T_ContactHigh, NoText, TRUE, 61, D_2009, NoText),
    CatalogResult(7, T_FirstContact, NoText, TRUE, 70, D_1997, NoText),
    CatalogResult(8, T_ContactPoint, NoText, TRUE, 55, NoText, NoText),
    CatalogResult(9, T_Contact, NoText, FALSE, 0, D_1997, NoText),
    CatalogResult(3, NoText, T_Contact, TRUE, 66, NoText, D_2009),
    CatalogResult(4, NoText, T_FirstContact, TRUE, 72, NoText, D_1997) }

\* the longest answer of the catalog that is drawn
MaxResponse == 4

\* the answers: lists of distinct results
Responses ==
  UNION {{r \in [1..n -> VPool] : \A a, b \in 1..n : a # b => r[a] # r[b]} : n \in 0..MaxResponse}

VYears == {NoText, Y_1997}

NoCall == [done |-> FALSE]

InitValidate ==
  /\ \E credentials \in Credentials : Constructed(credentials, FALSE)
  /\ vin \in [title : {T_Contact}, year : VYears, contentType : ContentType,
              response : Responses]
  /\ vret = NoCall
  /\ backend = "forum"
  /\ memo = [relevance |-> <<>>, admitted |-> <<>>, titles |-> <<>>, aiTitles |-> <<>>,
             aiBatch |-> <<>>]
  /\ NeverCalled
  /\ callsLeft = 0
  /\ faultsLeft = 0

\* a caller awaits searchAndValidateTMDB(title, year, contentType)
DirectValidate ==
  \E failed \in BOOLEAN :
    LET r == searchAndValidateTMDB(cache, now, vin.title, vin.year, vin.contentType,
                                   vin.response, failed)
    IN /\ vret' = [done |-> TRUE, threw |-> r.threw, data |-> r.data,
                   queried |-> r.queried, failed |-> failed]
       /\ cache' = r.cache
       /\ UNCHANGED <<reddit, aiParser, now, backend, memo, vin, harvestVars>>

NextValidate == DirectValidate

vvars == <<reddit, cache, aiParser, now, backend, memo, vin, vret, harvestVars>>

SpecValidate == InitValidate /\ [][NextValidate]_vvars

(***************************************************************************)
(* Claims on the validator, checked under SpecValidate                     *)
(***************************************************************************)
\* the position of an entry in a list of distinct entries (0: not in it)
PositionIn(list, m) ==
  IF \E n \in 1..Len(list) : list[n] = m
  THEN CHOOSE n \in 1..Len(list) : list[n] = m ELSE 0

\* the year an entry was released or first aired, as the catalog states it
\* for the content type
catalogYear(m, contentType) ==
  LET date == IF contentType = "tv" THEN m.first_air_date ELSE m.release_date
  IN IF Truthy(date) THEN YearPart(date) ELSE NoText

\* the entries of the answer that pass the quality filter of the content type
Admissible(contentType) ==
  {m \in Range(vin.response) :
     /\ Truthy(IF contentType = "tv" THEN m.name ELSE m.title)
     /\ m.poster_path
     /\ m.vote_average > 0}

\* C8: validate never raises to its caller, in every state of the engine,
\* and a transport or parse error of the catalog query resolves to the empty
\* list.
C8_ValidateNeverRaises ==
  vret.done =>
    /\ ~vret.threw
    /\ (vret.failed /\ vret.queried) => vret.data = <<>>

\* C9: for either content type, when a year is given and exactly one
\* admissible entry of the answer has that year, validate returns that entry
\* first and returns no entry twice.
C9_YearMatchFirst ==
  LET matching == {m \in Admissible(vin.contentType) :
                     catalogYear(m, vin.contentType) = vin.year}
  IN (/\ vret.done /\ ~vret.threw /\ vret.queried /\ ~vret.failed
      /\ Truthy(vin.year)
      /\ Cardinality(matching) = 1)
     => /\ Len(vret.data) > 0
        /\ vret.data[1] \in matching
        /\ \A a, b \in 1..Len(vret.data) : a # b => vret.data[a].id # vret.data[b].id

\* C10: every list validate returns has at most 3 entries, each with a display
\* name for the requested content type, a poster and a vote average above
\* zero; apart from a year-matched entry moved to the front the entries keep
\* the order of the catalog's answer.
C10_ValidatedShape ==
  (vret.done /\ ~vret.threw) =>
    LET data == vret.data
        moved == /\ Len(data) > 0
                 /\ Truthy(vin.year)
                 /\ releaseYearOf(data[1]) = vin.year
        first == IF moved THEN 2 ELSE 1
    IN /\ Len(data) <= 3
       /\ \A n \in 1..Len(data) : data[n] \in Admissible(vin.contentType)
       /\ \A a, b \in first..Len(data) :
            a < b => PositionIn(vin.response, data[a]) < PositionIn(vin.response, data[b])

\* a call that queried the catalog, got more than three admissible entries
\* and moved a year match from a later place to the front
C10_Witness ==
  /\ vret.done /\ ~vret.threw /\ vret.queried /\ ~vret.failed
  /\ Cardinality(Admissible(vin.contentType)) > 3
  /\ Len(vret.data) = 3
  /\ Truthy(vin.year)
  /\ releaseYearOf(vret.data[1]) = vin.year
  /\ PositionIn(vin.response, vret.data[1]) > PositionIn(vin.response, vret.data[2])

(***************************************************************************)
(* The external collaborators of a harvest, as stubs: a catalog of five    *)
(* movies and two shows, and a discussion platform of six posts .          *)
(***************************************************************************)
T_Solaris == <<"S","o","l","a","r","i","s">>
T_Gattaca == <<"G","a","t","t","a","c","a">>
T_Sunshine == <<"S","u","n","s","h","i","n","e">>
T_Primer == <<"P","r","i","m","e","r">>
T_Stalker == <<"S","t","a","l","k","e","r">>

MovieCatalog ==
  << CatalogResult(1, T_Arrival, NoText, TRUE, 76, D_2016, NoText),
     CatalogResult(2, T_Annihilation, NoText, TRUE, 68, D_2018, NoText),
     CatalogResult(3, T_Contact, NoText, TRUE, 74, D_1997, NoText),
     CatalogResult(4, T_Heat, NoText, TRUE, 79, D_1995, NoText),
     CatalogResult(5, T_BladeRunner, NoText, TRUE, 81, D_1982, NoText),
     CatalogResult(6, T_Solaris, NoText, TRUE, 79, D_1982, NoText),
     CatalogResult(7, T_Gattaca, NoText, TRUE, 76, D_1997, NoText),
     CatalogResult(8, T_Sunshine, NoText, TRUE, 70, D_2018, NoText),
     CatalogResult(9, T_Primer, NoText, TRUE, 68, D_2016, NoText),
     CatalogResult(10, T_Stalker, NoText, TRUE, 80, D_1982, NoText) >>

\* ids are unique within a catalog only: show 3 is not movie 3
TvCatalog ==
  << CatalogResult(1, NoText, T_Arrival, TRUE, 70, NoText, D_2016),
     CatalogResult(3, NoText, T_Contact, TRUE, 66, NoText, D_2009) >>

\* GET /search/movie or /search/tv: the entries whose display name contains
\* the query, case ignored
RECURSIVE searchIn(_, _, _, _)
searchIn(catalog, query, contentType, n) ==
  IF n > Len(catalog) THEN <<>>
  ELSE LET shown == IF contentType = "tv" THEN catalog[n].name ELSE catalog[n].title
       IN (IF Includes(ToLower(shown), ToLower(query)) THEN <<catalog[n]>> ELSE <<>>)
          \o searchIn(catalog, query, contentType, n + 1)

searchCatalog(query, contentType) ==
  searchIn(IF contentType = "tv" THEN TvCatalog ELSE MovieCatalog, query, contentType, 1)

\* GET /movie/<id> or /tv/<id>: the genre ids of the entry, none for an id
\* the catalog of that content type does not hold
genresOf(id, contentType) ==
  IF contentType = "tv"
  THEN (CASE id = 1 -> <<18>> [] id = 3 -> <<18, 9648>> [] OTHER -> <<>>)
  ELSE (CASE id = 1 -> <<878, 18>> [] id = 2 -> <<878, 27>> [] id = 3 -> <<18, 878>>
          [] id = 4 -> <<80, 53>> [] id = 5 -> <<878>>
          [] id \in 6..10 -> <<878>> [] OTHER -> <<>>)

PT_MoviesLike == <<"M","o","v","i","e","s"," ","l","i","k","e"," ","A","r","r","i","v","a","l","?">>
PT_IfYouLiked == <<"I","f"," ","y","o","u"," ","l","i","k","e","d"," ","A","r","r","i","v","a","l">>
PT_Scenes == <<"M","o","v","i","e","s"," ","w","i","t","h"," ","s","c","e","n","e","s"," ","l","i","k","e"," ","A","r","r","i","v","a","l">>
PT_SimilarTo == <<"S","i","m","i","l","a","r"," ","t","o"," ","A","r","r","i","v","a","l">>
PT_ShowsLike == <<"S","h","o","w","s"," ","l","i","k","e"," ","A","r","r","i","v","a","l">>
PT_ILike == <<"I"," ","l","i","k","e"," ","A","r","r","i","v","a","l">>
B_Annihilation == <<"A","n","n","i","h","i","l","a","t","i","o","n">>
B_Contact1997 == <<"C","o","n","t","a","c","t"," ","(","1","9","9","7",")">>
B_Heat == <<"H","e","a","t">>
B_Heat1995 == <<"H","e","a","t"," ","(","1","9","9","5",")">>
B_WatchBladeRunner == <<"W","a","t","c","h"," ","B","l","a","d","e"," ","R","u","n","n","e","r">>

Comment(body, score) == [body |-> body, score |-> score]

\* a post of a search result, with the comments its submission holds
Post(id, subreddit, title, comments) ==
  [id |-> id, subreddit |-> subreddit, title |-> title, permalink |-> id,
   num_comments |-> Len(comments), comments |-> comments]

P1 == Post("p1", "MovieSuggestions", PT_MoviesLike,
           <<Comment(B_Annihilation, 5), Comment(B_Contact1997, 3), Comment(B_Heat1995, 1)>>)
P2 == Post("p2", "MovieSuggestions", PT_Scenes, <<Comment(B_Heat1995, 4)>>)
P3 == Post("p3", "MovieSuggestions", PT_IfYouLiked,
           <<Comment(B_WatchBladeRunner, 2), Comment(B_Contact1997, 9)>>)
P4 == Post("p4", "NetflixBestOf", PT_SimilarTo,
           <<Comment(B_Heat, 7), Comment(B_WatchBladeRunner, 1)>>)
P5 == Post("p5", "televisionsuggestions", PT_ShowsLike, <<Comment(B_Contact1997, 2)>>)
\* a post that names the title and scores 30, but asks for nothing
P6 == Post("p6", "movies", PT_ILike, <<Comment(B_Annihilation, 1)>>)

\* the one relevant post of the end-to-end scenario, its three comments
\* naming Annihilation, Contact (1997) and Heat; in the second form the
\* comment on Heat carries the year
P0 == Post("p0", "MovieSuggestions", PT_MoviesLike,
           <<Comment(B_Annihilation, 5), Comment(B_Contact1997, 3), Comment(B_Heat, 1)>>)
P0y == Post("p0", "MovieSuggestions", PT_MoviesLike,
            <<Comment(B_Annihilation, 5), Comment(B_Contact1997, 3), Comment(B_Heat1995, 1)>>)

\* a crowded post: eight comments naming eight films, and its three
\* neighbours in the search results, which ask for scenes
P7 == Post("p7", "MovieSuggestions", PT_MoviesLike,
           <<Comment(B_Annihilation, 8), Comment(B_Contact1997, 7), Comment(T_BladeRunner, 6),
             Comment(T_Solaris, 5), Comment(T_Gattaca, 4), Comment(T_Sunshine, 3),
             Comment(T_Primer, 2), Comment(T_Stalker, 1)>>)
P8 == Post("p8", "movies", PT_Scenes, <<Comment(B_Heat1995, 2)>>)
P9 == Post("p9", "NetflixBestOf", PT_Scenes, <<Comment(B_Heat1995, 1)>>)

\* a community with more posts than a quick harvest processes: the posts were
\* found for the title but are about scenes, except the one behind the
\* maxPostsToProcess-th, which asks for films like the title
FloodIds ==
  <<"f1", "f2", "f3", "f4", "f5", "f6", "f7", "f8", "f9", "f10", "f11", "f12", "f13",
    "f14", "f15", "f16", "f17", "f18", "f19", "f20", "f21", "f22", "f23", "f24", "f25",
    "f26", "f27">>
AskingAt == Len(FloodIds) - 1
FloodPost(n) ==
  Post(FloodIds[n], "MovieSuggestions", IF n = AskingAt THEN PT_MoviesLike ELSE PT_Scenes,
       <<Comment(B_Heat1995, 1)>>)
FloodPosts == [n \in 1..Len(FloodIds) |-> FloodPost(n)]

\* the stub discussion platforms: the forum of six posts, and the two forms
\* of the scenario
Backends == {"forum", "scenario", "scenarioYear", "crowd", "flood"}

\* what a search of the community finds on the platform b (the query is the
\* harvested title, the only one the posts are about)
postsOf(b, subreddit) ==
  CASE b = "forum" /\ subreddit = "MovieSuggestions" -> <<P1, P2, P3>>
    [] b = "forum" /\ subreddit = "movies" -> <<P6>>
    [] b = "forum" /\ subreddit = "NetflixBestOf" -> <<P4>>
    [] b = "forum" /\ subreddit = "televisionsuggestions" -> <<P5>>
    [] b = "scenario" /\ subreddit = "MovieSuggestions" -> <<P0>>
    [] b = "scenarioYear" /\ subreddit = "MovieSuggestions" -> <<P0y>>
    [] b = "crowd" /\ subreddit = "MovieSuggestions" -> <<P7, P2>>
    [] b = "crowd" /\ subreddit = "movies" -> <<P8>>
    [] b = "crowd" /\ subreddit = "NetflixBestOf" -> <<P9>>
    [] b = "flood" /\ subreddit = "MovieSuggestions" -> FloodPosts
    [] OTHER -> <<>>

\* the communities a quick harvest searches
quickSubreddits(contentType) ==
  IF contentType = "tv"
  THEN <<"televisionsuggestions", "television", "NetflixBestOf", "DisneyPlus", "HBOMax">>
  ELSE <<"MovieSuggestions", "movies", "NetflixBestOf", "DisneyPlus", "HBOMax", "amazonprime">>

\* the communities a comprehensive harvest searches
comprehensiveSubreddits(contentType) ==
  IF contentType = "tv"
  THEN <<"televisionsuggestions", "ifyoulikeblank", "tv_shows", "DisneyPlus",
         "NetflixBestOf", "AmazonPrimeVideo", "HBOMax", "HBO">>
  ELSE <<"MovieSuggestions", "ifyoulikeblank", "movies", "DisneyPlus",
         "NetflixBestOf", "AmazonPrimeVideo", "HBOMax", "HBO">>

\* The answer of the AI backend to a prompt about a comment: the titles the
\* comment names, one per line.
aiAnswer(body) ==
  IF body = B_WatchBladeRunner THEN T_BladeRunner
  ELSE IF body = B_Heat1995 THEN T_Heat
  ELSE body

\* the answer of the AI backend to a prompt about several comments
RECURSIVE aiBatchAnswer(_, _)
aiBatchAnswer(bodies, n) ==
  IF n > Len(bodies) THEN <<>>
  ELSE aiAnswer(bodies[n]) \o (IF n < Len(bodies) THEN <<"\n">> ELSE <<>>)
       \o aiBatchAnswer(bodies, n + 1)

(***************************************************************************)
(* The admission test of a post inside a batch member (lines 523-579)      *)
(***************************************************************************)
WsPlus == RPlus(RChar(Ws))
\* ["']?
OptQuote == ROpt(RChar({"\"", "'"}))
\* (movies?|films?|shows?)
KindRe == RAlt(<<RSeq(<<RLitCI(<<"m","o","v","i","e">>), ROpt(RChar({"s", "S"}))>>), RSeq(<<RLitCI(<<"f","i","l","m">>), ROpt(RChar({"s", "S"}))>>), RSeq(<<RLitCI(<<"s","h","o","w">>), ROpt(RChar({"s", "S"}))>>)>>)
\* (movies?|films?)
FilmRe == RAlt(<<RSeq(<<RLitCI(<<"m","o","v","i","e">>), ROpt(RChar({"s", "S"}))>>), RSeq(<<RLitCI(<<"f","i","l","m">>), ROpt(RChar({"s", "S"}))>>)>>)

\* (movies?|films?|shows?)\s+like\s+["']?Q
patternMoviesLike(q) == RSeq(<<KindRe, WsPlus, RLitCI(<<"l","i","k","e">>), WsPlus, OptQuote, q>>)
\* similar\s+to\s+["']?Q
patternSimilarTo(q) == RSeq(<<RLitCI(<<"s","i","m","i","l","a","r">>), WsPlus, RLitCI(<<"t","o">>), WsPlus, OptQuote, q>>)
\* Q.*?(recommendation|suggest|similar)
patternRecommendations(q) ==
  RSeq(<<q, RStar(RDot), RAlt(<<RLitCI(<<"r","e","c","o","m","m","e","n","d","a","t","i","o","n">>), RLitCI(<<"s","u","g","g","e","s","t">>), RLitCI(<<"s","i","m","i","l","a","r">>)>>)>>)
\* if\s+you\s+(liked?|loved?|enjoyed)\s+["']?Q
patternIfYouLiked(q) ==
  RSeq(<<RLitCI(<<"i","f">>), WsPlus, RLitCI(<<"y","o","u">>), WsPlus,
         RAlt(<<RSeq(<<RLitCI(<<"l","i","k","e">>), ROpt(RChar({"d", "D"}))>>), RSeq(<<RLitCI(<<"l","o","v","e">>), ROpt(RChar({"d", "D"}))>>), RLitCI(<<"e","n","j","o","y","e","d">>)>>),
         WsPlus, OptQuote, q>>)
\* (just|recently)\s+(watched|saw|finished)\s+["']?Q
patternJustWatched(q) ==
  RSeq(<<RAlt(<<RLitCI(<<"j","u","s","t">>), RLitCI(<<"r","e","c","e","n","t","l","y">>)>>), WsPlus,
         RAlt(<<RLitCI(<<"w","a","t","c","h","e","d">>), RLitCI(<<"s","a","w">>), RLitCI(<<"f","i","n","i","s","h","e","d">>)>>), WsPlus, OptQuote, q>>)
\* (besides|other than|apart from|aside from|except)\s+["']?Q
patternBesides(q) ==
  RSeq(<<RAlt(<<RLitCI(<<"b","e","s","i","d","e","s">>), RLitCI(<<"o","t","h","e","r"," ","t","h","a","n">>), RLitCI(<<"a","p","a","r","t"," ","f","r","o","m">>), RLitCI(<<"a","s","i","d","e"," ","f","r","o","m">>), RLitCI(<<"e","x","c","e","p","t">>)>>),
         WsPlus, OptQuote, q>>)
\* the keywords of a request for recommendations
hasRecKeywordsRe ==
  RAlt(<<RLitCI(<<"w","a","n","t"," ","m","o","r","e">>), RLitCI(<<"n","e","e","d"," ","m","o","r","e">>), RLitCI(<<"r","e","c","o","m","m","e","n","d">>), RLitCI(<<"s","i","m","i","l","a","r">>), RLitCI(<<"l","i","k","e">>), RLitCI(<<"s","u","g","g","e","s","t">>), RSeq(<<RLitCI(<<"w","h","a","t">>), RStar(RDot), RAlt(<<RLitCI(<<"n","e","x","t">>), RLitCI(<<"e","l","s","e">>), RLitCI(<<"n","o","w">>), RLitCI(<<"o","t","h","e","r">>)>>)>>), RSeq(<<RLitCI(<<"a","n","y">>), RStar(RDot), RAlt(<<RLitCI(<<"s","u","g","g","e","s","t","i","o","n">>), RLitCI(<<"r","e","c","o","m","m","e","n","d","a","t","i","o","n">>)>>)>>), RLitCI(<<"l","o","o","k","i","n","g"," ","f","o","r">>)>>)
\* (movies?|films?)\s+(with|that have|featuring)\s+(good|great|amazing|intense)\s+(fight|action|scene|effect|music)
askingForSpecificAttributeRe ==
  RSeq(<<FilmRe, WsPlus, RAlt(<<RLitCI(<<"w","i","t","h">>), RLitCI(<<"t","h","a","t"," ","h","a","v","e">>), RLitCI(<<"f","e","a","t","u","r","i","n","g">>)>>), WsPlus,
         RAlt(<<RLitCI(<<"g","o","o","d">>), RLitCI(<<"g","r","e","a","t">>), RLitCI(<<"a","m","a","z","i","n","g">>), RLitCI(<<"i","n","t","e","n","s","e">>)>>), WsPlus,
         RAlt(<<RLitCI(<<"f","i","g","h","t">>), RLitCI(<<"a","c","t","i","o","n">>), RLitCI(<<"s","c","e","n","e">>), RLitCI(<<"e","f","f","e","c","t">>), RLitCI(<<"m","u","s","i","c">>)>>)>>)

\* Q[\s]*\(?YEAR\)? and Q[\s]*\(YEAR\)
mentionedWithYearRe(q, year) ==
  RSeq(<<q, RStar(RChar(Ws)), ROpt(RChar({"("})), RLitCI(year), ROpt(RChar({")"}))>>)
movieWithYearRe(q, year) ==
  RSeq(<<q, RStar(RChar(Ws)), RChar({"("}), RLitCI(year), RChar({")"})>>)

\* The post passes the three rejections of lines 535-579.  The title is
\* escaped before it is inserted into these patterns, so it is a literal.
postAdmittedFor(titleText, queryLower, q, year) ==
  LET hasYear == Truthy(year)
      movieMentioned ==
        \/ Includes(ToLower(titleText), queryLower)
        \/ (hasYear /\ Test(mentionedWithYearRe(q, year), titleText))
      hasRecKeywords == Test(hasRecKeywordsRe, titleText)
      likeOrSimilar == \/ Test(patternMoviesLike(q), titleText)
                       \/ Test(patternSimilarTo(q), titleText)
      isValidPost ==
        \/ likeOrSimilar
        \/ Test(patternRecommendations(q), titleText)
        \/ Test(patternIfYouLiked(q), titleText)
        \/ (Test(patternJustWatched(q), titleText) /\ hasRecKeywords)
        \/ Test(patternBesides(q), titleText)
        \/ (hasYear /\ Test(movieWithYearRe(q, year), titleText) /\ hasRecKeywords)
      askingForSpecificAttribute == Test(askingForSpecificAttributeRe, titleText)
  IN /\ movieMentioned
     /\ isValidPost
     /\ ~(askingForSpecificAttribute /\ ~likeOrSimilar)

\* queryLower is the title without its year, lower-cased, and q the pattern
\* the escaped title makes
postAdmittedWith(titleText, queryLower, year) ==
  postAdmittedFor(titleText, queryLower, RLitCI(queryLower), year)
postAdmitted(titleText, movieTitle, year) ==
  postAdmittedWith(titleText, ToLower(StripYearSuffix(movieTitle)), year)

(***************************************************************************)
(* Comments of a post, and the lines of an AI answer                       *)
(***************************************************************************)
\* comments.filter(c => c && c.body && c.body.length >= 5)
RECURSIVE longComments(_, _)
longComments(comments, n) ==
  IF n > Len(comments) THEN <<>>
  ELSE (IF Len(comments[n].body) >= 5 THEN <<comments[n]>> ELSE <<>>)
       \o longComments(comments, n + 1)

\* Array.prototype.sort with a comparator: a stable insertion of x into a
\* list sorted by non-increasing key
RECURSIVE insertDesc(_, _, _, _)
insertDesc(sorted, x, Before(_, _), n) ==
  IF n > Len(sorted) THEN Append(sorted, x)
  ELSE IF Before(x, sorted[n])
       THEN Sub(sorted, 1, n - 1) \o <<x>> \o Sub(sorted, n, Len(sorted))
       ELSE insertDesc(sorted, x, Before, n + 1)

RECURSIVE sortDesc(_, _, _)
sortDesc(list, Before(_, _), n) ==
  IF n = 0 THEN <<>>
  ELSE insertDesc(sortDesc(list, Before, n - 1), list[n], Before, 1)

\* (a, b) => (b.score || 0) - (a.score || 0) puts a before b
higherScore(a, b) == a.score > b.score

\* the most comments of a post a quick harvest reads: slice(0, 15)
MaxTopComments == 15

topComments(comments) ==
  LET long == longComments(comments, 1)
  IN Slice(sortDesc(long, higherScore, Len(long)), MaxTopComments)

(***************************************************************************)
(* AI strategy: the titles read from an answer of the AI backend           *)
(***************************************************************************)
W_no_recommendations == <<"n","o"," ","r","e","c","o","m","m","e","n","d","a","t","i","o","n","s">>
W_no_similar == <<"n","o"," ","s","i","m","i","l","a","r">>

\* the characters of /^[\d\.\)\-\*]\s*/ (the bullet sign U+2022 of the
\* source's class is not a character of the modelled texts)
MarkerCls == Digit \cup {".", ")", "-", "*"}

\* line.replace(/^[\d\.\)\-\*]\s*/, '').trim(): one leading marker goes
cleanedLine(line) ==
  IF line # <<>> /\ line[1] \in MarkerCls
  THEN LET e == Ends(RSeq(<<RChar(MarkerCls), RStar(RChar(Ws))>>), line, 1)
       IN Trim(Sub(line, SetMax(e), Len(line)))
  ELSE Trim(line)

\* the two filters and the map over the lines of an answer
RECURSIVE cleanedLines(_, _)
cleanedLines(lines, n) ==
  IF n > Len(lines) THEN <<>>
  ELSE LET line == Trim(lines[n])
           cleaned == cleanedLine(line)
       IN (IF Len(line) > 0 /\ Len(cleaned) >= 2 /\ Test(RChar(Letter), cleaned)
           THEN <<cleaned>> ELSE <<>>)
          \o cleanedLines(lines, n + 1)

\* response.split('\n') ... .slice(0, cap); a split piece that is empty is
\* dropped by the first filter, so the non-empty runs are the lines
titlesOfResponse(response, cap) ==
  Slice(cleanedLines(Runs(response, {"\n"}, 1, <<>>), 1), cap)

\* the most titles read from an answer about one text and about a batch
MaxAiTitles == 10
MaxAiBatchTitles == 15

\* how a call of the AI backend goes: it answers, it answers with nothing,
\* or the call fails
AiOutcomes == {"answer", "nothing", "error"}

\* lines 156-179 of aiParser.js: the titles read from the trimmed answer,
\* <<>> for null (the callers treat null and an empty list alike)
titlesOfAnswer(response, outcome) ==
  IF outcome = "error" \/ response = <<>> THEN <<>>
  ELSE IF \/ Includes(ToLower(response), W_no_recommendations)
          \/ Includes(ToLower(response), W_no_similar)
          \/ Len(response) < 3
  THEN <<>>
  ELSE titlesOfResponse(response, MaxAiTitles)

\* AIParser.extractTitles(text, ...), the parser being available
extractTitles(text, outcome) ==
  titlesOfAnswer(Trim(IF outcome = "answer" THEN aiAnswer(text) ELSE <<>>), outcome)

\* lines 63-81 of aiParser.js: the titles read from the trimmed answer to a
\* prompt about several comments
titlesOfBatchAnswer(response, comments, outcome) ==
  IF Len(comments) = 0 \/ outcome = "error" \/ response = <<>> \/ Len(response) < 3
  THEN <<>>
  ELSE titlesOfResponse(response, MaxAiBatchTitles)

\* AIParser.extractTitlesFromMultipleComments(comments, ...)
extractTitlesFromMultipleComments(comments, outcome) ==
  titlesOfBatchAnswer(Trim(IF outcome = "answer" THEN aiBatchAnswer(comments, 1) ELSE <<>>),
                      comments, outcome)

\* the captured group of a match m on s, NoText for no match
groupOf(s, m) == IF m.found THEN Sub(s, m.g, m.k - 1) ELSE NoText
\* s without the group of a match m on it
withoutGroup(s, m) == IF m.found THEN Sub(s, 1, m.g - 1) \o Sub(s, m.k, Len(s)) ELSE s

\* /\((\d{4})\)/.exec(titleStr): the year, NoText for null
yearOfTitleStr(titleStr) ==
  groupOf(titleStr, Exec(RChar({"("}), RRep(RChar(Digit), 4, 4), RChar({")"}), titleStr, 1))

\* titleStr.replace(/\s*\(\d{4}\)\s*/, '').trim(): the first match goes
titleOfTitleStr(titleStr) ==
  Trim(withoutGroup(titleStr,
                    Exec(REmpty, RSeq(<<YearTailRe, RStar(RChar(Ws))>>), REmpty, titleStr, 1)))

\* the title and the year of each line of an AI answer
parsedTitles(titles) ==
  [n \in 1..Len(titles) |->
     [title |-> titleOfTitleStr(titles[n]), year |-> yearOfTitleStr(titles[n])]]

\* the bodies of comments
bodies(comments) == [n \in 1..Len(comments) |-> comments[n].body]

(***************************************************************************)
(* The text functions on the texts of the stub platform, computed once     *)
(***************************************************************************)
AllPosts == {P0, P0y, P1, P2, P3, P4, P5, P6, P7, P8, P9} \cup {FloodPost(n) : n \in DOMAIN FloodIds}
\* the titles harvested
Titles == {T_Arrival}
PostTitles == {p.title : p \in AllPosts}
Bodies == UNION {{p.comments[n].body : n \in 1..Len(p.comments)} : p \in AllPosts}
\* the release years a harvest of the stub titles can know: none, or that
\* of Arrival
KnownYears == {NoText, Y_2016}

\* The values of calculatePostRelevance, postAdmitted, titlesToProcess, and
\* of the parsed titles of extractTitles and extractTitlesFromMultipleComments
\* on the texts of the stub platform.  The variable memo holds them from
\* Init on, so that they are computed once and not in every step.
TextTables ==
  [relevance |-> [k \in PostTitles \X Titles \X KnownYears |->
                    calculatePostRelevance(k[1], k[2], k[3])],
   admitted |-> [k \in PostTitles \X Titles \X KnownYears |->
                    postAdmitted(k[1], k[2], k[3])],
   titles |-> [k \in Bodies \X Titles |-> titlesToProcess(k[1], k[2])],
   aiTitles |-> [k \in Bodies |-> parsedTitles(extractTitles(k, "answer"))],
   aiBatch |-> [k \in {bodies(topComments(p.comments)) : p \in AllPosts} |->
                  parsedTitles(extractTitlesFromMultipleComments(k, "answer"))]]

postRelevance(postTitle, searchMovieTitle, year) ==
  IF <<postTitle, searchMovieTitle, year>> \in DOMAIN memo.relevance
  THEN memo.relevance[<<postTitle, searchMovieTitle, year>>]
  ELSE calculatePostRelevance(postTitle, searchMovieTitle, year)

isAdmitted(titleText, movieTitle, year) ==
  IF <<titleText, movieTitle, year>> \in DOMAIN memo.admitted
  THEN memo.admitted[<<titleText, movieTitle, year>>]
  ELSE postAdmitted(titleText, movieTitle, year)

patternTitles(text, originalTitle) ==
  IF <<text, originalTitle>> \in DOMAIN memo.titles
  THEN memo.titles[<<text, originalTitle>>]
  ELSE titlesToProcess(text, originalTitle)

aiTitlesOf(text, outcome) ==
  IF outcome = "answer" /\ text \in DOMAIN memo.aiTitles THEN memo.aiTitles[text]
  ELSE parsedTitles(extractTitles(text, outcome))

aiBatchTitlesOf(comments, outcome) ==
  IF outcome = "answer" /\ comments \in DOMAIN memo.aiBatch THEN memo.aiBatch[comments]
  ELSE parsedTitles(extractTitlesFromMultipleComments(comments, outcome))

(***************************************************************************)
(* Extraction orchestrator: extractRecommendationsFromPost                 *)
(***************************************************************************)
\* matchedMovie.title || matchedMovie.name
displayName(m) == IF Truthy(m.title) THEN m.title ELSE m.name

\* searchAndValidateTMDB against the stub catalog; the queries of `bad` fail
\* with a transport error
validate(c, time, title, year, contentType, bad) ==
  searchAndValidateTMDB(c, time, title, year, contentType,
                        searchCatalog(title, contentType), ToLower(title) \in bad)

\* the movie the strategies push for a title and its first match; byName
\* tells whether the confidence is taken against title || name (AI strategy)
\* or against title alone (pattern strategy)
validatedMovie(title, matchedMovie, byName) ==
  [extractedTitle |-> title, tmdbMatch |-> matchedMovie,
   confidence |-> calculateMatchConfidence(title, IF byName THEN displayName(matchedMovie)
                                                   ELSE matchedMovie.title)]

\* acc after the validation r of item, whose query is low
withValidation(acc, r, item, low, bad, byName) ==
  [movies |-> IF Len(r.data) > 0
              THEN Append(acc.movies, validatedMovie(item.title, r.data[1], byName))
              ELSE acc.movies,
   cache |-> r.cache,
   queried |-> IF r.queried THEN acc.queried \cup {low} ELSE acc.queried,
   failed |-> IF r.queried /\ low \in bad THEN acc.failed \cup {low} ELSE acc.failed]

\* The validations of one extraction, the cache threaded through them:
\* the validated movies, the cache they leave, the queries that reached the
\* catalog and those among them that failed
RECURSIVE validateAll(_, _, _, _, _, _, _)
validateAll(acc, time, items, contentType, bad, byName, n) ==
  IF n > Len(items) THEN acc
  ELSE validateAll(
         withValidation(acc,
                        validate(acc.cache, time, items[n].title, items[n].year,
                                 contentType, bad),
                        items[n], ToLower(items[n].title), bad, byName),
         time, items, contentType, bad, byName, n + 1)

NoValidation(c) == [movies |-> <<>>, cache |-> c, queried |-> {}, failed |-> {}]

\* what extractRecommendationsFromPost returns from the pattern strategy
patternOutcome(byAi, byPattern, ai) ==
  [movies |-> byPattern.movies, cache |-> byPattern.cache,
   queried |-> byAi.queried \cup byPattern.queried,
   failed |-> byAi.failed \cup byPattern.failed,
   aiCalled |-> ai, strategy |-> "pattern", validatedByAi |-> 0]

\* an orchestrator that returns what the AI strategy validated whenever the
\* parser is available, also when that is nothing
extractionAfterAi_NoFallback(byAi, time, text, originalTitle, ai, bad) ==
  IF ai
  THEN [movies |-> byAi.movies, cache |-> byAi.cache, queried |-> byAi.queried,
        failed |-> byAi.failed, aiCalled |-> TRUE, strategy |-> "ai",
        validatedByAi |-> Len(byAi.movies)]
  ELSE patternOutcome(byAi,
                      validateAll(NoValidation(byAi.cache), time,
                                  patternTitles(text, originalTitle), "movie",
                                  bad, FALSE, 1),
                      ai)

\* lines 150-296: what the AI strategy validated (byAi) is returned when it
\* holds a movie; the pattern strategy runs otherwise, and validates without
\* a content type, so as a movie.  validatedByAi is validated.length of line
\* 150 where it is returned
extractionAfterAi(byAi, time, text, originalTitle, ai, bad) ==
  IF Len(byAi.movies) > 0
  THEN [movies |-> byAi.movies, cache |-> byAi.cache, queried |-> byAi.queried,
        failed |-> byAi.failed, aiCalled |-> TRUE, strategy |-> "ai",
        validatedByAi |-> Len(byAi.movies)]
  ELSE patternOutcome(byAi,
                      validateAll(NoValidation(byAi.cache), time,
                                  patternTitles(text, originalTitle), "movie",
                                  bad, FALSE, 1),
                      ai)

\* extractRecommendationsFromPost(text, originalTitle, contentType) on an
\* engine whose cache is c: the AI strategy first when the parser is
\* available, the pattern strategy when it yields no validated movie
extractRecommendationsFromPost(c, time, text, originalTitle, contentType, ai, outcome, bad) ==
  IF text = <<>>
  THEN [movies |-> <<>>, cache |-> c, queried |-> {}, failed |-> {},
        aiCalled |-> FALSE, strategy |-> "none", validatedByAi |-> 0]
  ELSE extractionAfterAi(validateAll(NoValidation(c), time,
                                     IF ai THEN aiTitlesOf(text, outcome) ELSE <<>>,
                                     contentType, bad, TRUE, 1),
                         time, text, originalTitle, ai, bad)

(***************************************************************************)
(* Aggregator: addOrUpdateRecommendation and the genre test                *)
(***************************************************************************)
\* Math.log(n), in thousandths
LnMilli(n) ==
  CASE n = 1 -> 0 [] n = 2 -> 693 [] n = 3 -> 1099 [] n = 4 -> 1386 [] n = 5 -> 1609
    [] n = 6 -> 1792 [] n = 7 -> 1946 [] n = 8 -> 2079 [] n = 9 -> 2197 [] OTHER -> 2303

\* rec.avgConfidence * Math.log(rec.mentions + 1) * (rec.vote_average / 10),
\* counted in 1/(ConfUnit * 1000 * 100); mentions is at least 1 here
finalScoreOf(totalConfidence, mentions, vote_average) ==
  (totalConfidence * LnMilli(mentions + 1) * vote_average) \div mentions

\* map.has(id): the place of the record in the Map (a Map keeps insertion
\* order), 0 when the Map has no such key
placeOf(map, id) ==
  IF \E n \in 1..Len(map) : map[n].id = id
  THEN CHOOSE n \in 1..Len(map) : map[n].id = id ELSE 0

\* the context handed to the aggregator with a movie
Context(source, subreddit, score, url) ==
  [source |-> source, subreddit |-> subreddit, score |-> score, url |-> url]

\* the record of a first mention: {...movie.tmdbMatch, mentions: 1, ...}
newRecord(movie, context) ==
  [id |-> movie.tmdbMatch.id,
   title |-> movie.tmdbMatch.title,
   name |-> movie.tmdbMatch.name,
   poster_path |-> movie.tmdbMatch.poster_path,
   vote_average |-> movie.tmdbMatch.vote_average,
   release_date |-> movie.tmdbMatch.release_date,
   first_air_date |-> movie.tmdbMatch.first_air_date,
   mentions |-> 1,
   totalConfidence |-> movie.confidence,
   contexts |-> <<context>>,
   subreddits |-> <<context.subreddit>>,
   sources |-> <<context.source>>,
   redditUrls |-> <<context.url>>,
   avgConfidence |-> movie.confidence,
   finalScore |-> finalScoreOf(movie.confidence, 1, movie.tmdbMatch.vote_average)]

\* a further mention that does not count the mention
updatedRecord_NoCount(existing, movie, context) ==
  [existing EXCEPT
     !.totalConfidence = existing.totalConfidence + movie.confidence,
     !.sources = Append(existing.sources, context.source),
     !.avgConfidence = (existing.totalConfidence + movie.confidence) \div existing.mentions,
     !.finalScore = finalScoreOf(existing.totalConfidence + movie.confidence,
                                 existing.mentions, existing.vote_average)]

\* a further mention that leaves finalScore as it was
updatedRecord_StaleScore(existing, movie, context) ==
  [existing EXCEPT
     !.mentions = existing.mentions + 1,
     !.totalConfidence = existing.totalConfidence + movie.confidence,
     !.sources = Append(existing.sources, context.source),
     !.avgConfidence = (existing.totalConfidence + movie.confidence)
                         \div (existing.mentions + 1)]

\* a further mention that keeps every context
updatedRecord_NoCap(existing, movie, context) ==
  [existing EXCEPT
     !.mentions = existing.mentions + 1,
     !.totalConfidence = existing.totalConfidence + movie.confidence,
     !.subreddits = IF context.subreddit \in Range(existing.subreddits)
                    THEN existing.subreddits
                    ELSE Append(existing.subreddits, context.subreddit),
     !.sources = Append(existing.sources, context.source),
     !.redditUrls = IF context.url \in Range(existing.redditUrls)
                    THEN existing.redditUrls
                    ELSE Append(existing.redditUrls, context.url),
     !.contexts = Append(existing.contexts, context),
     !.avgConfidence = (existing.totalConfidence + movie.confidence)
                         \div (existing.mentions + 1),
     !.finalScore = finalScoreOf(existing.totalConfidence + movie.confidence,
                                 existing.mentions + 1, existing.vote_average)]

\* the record of a further mention
updatedRecord(existing, movie, context) ==
  LET mentions == existing.mentions + 1
      totalConfidence == existing.totalConfidence + movie.confidence
  IN [existing EXCEPT
        !.mentions = mentions,
        !.totalConfidence = totalConfidence,
        !.subreddits = IF context.subreddit \in Range(existing.subreddits)
                       THEN existing.subreddits
                       ELSE Append(existing.subreddits, context.subreddit),
        !.sources = Append(existing.sources, context.source),
        !.redditUrls = IF context.url \in Range(existing.redditUrls)
                       THEN existing.redditUrls
                       ELSE Append(existing.redditUrls, context.url),
        !.contexts = IF Len(existing.contexts) < 3
                     THEN Append(existing.contexts, context)
                     ELSE existing.contexts,
        !.avgConfidence = totalConfidence \div mentions,
        !.finalScore = finalScoreOf(totalConfidence, mentions, existing.vote_average)]

\* addOrUpdateRecommendation that never looks the id up
addOrUpdateRecommendation_NoLookup(map, movie, context) ==
  IF movie.tmdbMatch.id = 0 THEN map ELSE Append(map, newRecord(movie, context))

\* addOrUpdateRecommendation(map, movie, context): the Map afterwards
addOrUpdateRecommendation(map, movie, context) ==
  LET n == placeOf(map, movie.tmdbMatch.id)
  IN IF movie.tmdbMatch.id = 0 THEN map
     ELSE IF n = 0 THEN Append(map, newRecord(movie, context))
     ELSE [map EXCEPT ![n] = updatedRecord(map[n], movie, context)]

\* a genre list that is null or undefined; no genre has the id 0
NoGenres == <<0>>

\* the genre filter without the return of line 879
isGenreSimilar_Strict(genres1, genres2) ==
  \E a \in 1..Len(genres1) : genres1[a] \in Range(genres2)

\* isGenreSimilar(genres1, genres2) on lists of genre ids
isGenreSimilar(genres1, genres2) ==
  \/ genres1 = NoGenres
  \/ genres2 = NoGenres
  \/ Len(genres1) = 0
  \/ Len(genres2) = 0
  \/ \E a \in 1..Len(genres1) : genres1[a] \in Range(genres2)

\* (a, b) => (b.finalScore || 0) - (a.finalScore || 0) puts a before b
higherFinalScore(a, b) == a.finalScore > b.finalScore

\* the final sort that leaves the records as the Map holds them
finalResults_Unsorted(map, limit) == Slice(map, limit)

\* Array.from(recommendations.values()).sort(...).slice(0, limit)
finalResults(map, limit) ==
  Slice(sortDesc(map, higherFinalScore, Len(map)), limit)

(***************************************************************************)
(* Harvest calls.  One call is followed at a time; a step of a call runs   *)
(* from the resolution of one awaited promise to the next await.           *)
(***************************************************************************)
\* the limits a caller asks for
MaxLimit == 3
Limits == 0..MaxLimit
\* harvest calls are followed up to this many
MaxCalls == 1
\* and up to this many where a harvest is repeated
MaxRepeats == 2
\* external calls fail up to this many times
MaxFaults == 1

\* the queries of the catalog that can fail: none, or those for one title
Queries ==
  {ToLower(T_Arrival), ToLower(T_Annihilation), ToLower(T_Contact), ToLower(T_Heat),
   ToLower(T_BladeRunner), ToLower(B_WatchBladeRunner)}
BadSets == {{}} \cup {{q} : q \in Queries}

\* how an external call goes
Outcomes == {"ok", "error"}

\* getMovieGenres(movieId, contentType): the genre ids, [] on any error
\* a lookup that resolves to a genre no entry has when the request fails
getMovieGenres_Unrelated(movieId, contentType, outcome) ==
  IF outcome = "error" THEN <<0 - 1>> ELSE genresOf(movieId, contentType)

getMovieGenres(movieId, contentType, outcome) ==
  IF outcome = "error" THEN <<>> ELSE genresOf(movieId, contentType)

\* The try/catch around the search of one community in a quick harvest
\* (lines 462-482) without its catch: the error leaves the loop
quickSearch_Uncaught(client, b, subreddit, outcome) ==
  IF client = "null" \/ outcome = "error" THEN [threw |-> TRUE, posts |-> <<>>]
  ELSE [threw |-> FALSE, posts |-> postsOf(b, subreddit)]

\* The search of one community in a quick harvest: a failed search, or a
\* client that is null, is caught and yields no post
quickSearch(client, b, subreddit, outcome) ==
  IF client = "null" \/ outcome = "error" THEN [threw |-> FALSE, posts |-> <<>>]
  ELSE [threw |-> FALSE, posts |-> postsOf(b, subreddit)]

\* The try/catch around one community in a comprehensive harvest (lines
\* 799-851) without its catch
comprehensiveSearch_Uncaught(client, b, subreddit, outcome) ==
  IF client = "null" \/ outcome = "error" THEN [threw |-> TRUE, posts |-> <<>>]
  ELSE [threw |-> FALSE, posts |-> postsOf(b, subreddit)]

\* The search of one community in a comprehensive harvest
comprehensiveSearch(client, b, subreddit, outcome) ==
  IF client = "null" \/ outcome = "error" THEN [threw |-> FALSE, posts |-> <<>>]
  ELSE [threw |-> FALSE, posts |-> postsOf(b, subreddit)]

\* the harvest call resolves (threw: rejects) and its locals are gone
Returns(list, threw, fromCache, failedKinds) ==
  /\ ret' = [done |-> TRUE, kind |-> call.kind, movieTitle |-> call.movieTitle,
             limit |-> call.limit, contentType |-> call.contentType,
             threw |-> threw, list |-> list, fromCache |-> fromCache,
             issued |-> issued, faulted |-> faulted \cup failedKinds, at |-> now]
  /\ call' = NoHarvest
  /\ pc' = "idle"
  /\ originalGenres' = <<>>
  /\ releaseYear' = NoText
  /\ allResults' = <<>>
  /\ subIdx' = 0
  /\ i' = 0
  /\ shouldStop' = FALSE
  /\ postsProcessed' = 0
  /\ recommendations' = <<>>
  /\ tasks' = <<>>
  /\ postIdx' = 0
  /\ faulted' = {}
  /\ issued' = {}

\* what a harvest call returns at once on an engine that is not available
ReturnsAtOnce(kind, movieTitle, limit, contentType, list, threw, fromCache) ==
  /\ ret' = [done |-> TRUE, kind |-> kind, movieTitle |-> movieTitle,
             limit |-> limit, contentType |-> contentType,
             threw |-> threw, list |-> list, fromCache |-> fromCache,
             issued |-> {}, faulted |-> {}, at |-> now]
  /\ UNCHANGED <<call, pc, locals, faulted, issued>>

\* the clock moves between harvest calls
HarvestTick ==
  /\ pc = "idle"
  /\ Tick
  /\ UNCHANGED <<backend, memo, vin, vret, harvestVars>>

\* getQuickRecommendations(movieTitle, limit, contentType) is called: [] at
\* once when the engine is not available
QuickCallWith(movieTitle, limit, contentType) ==
  /\ pc = "idle"
  /\ callsLeft > 0
  /\ callsLeft' = callsLeft - 1
  /\ IF ~isAvailable
     THEN ReturnsAtOnce("quick", movieTitle, limit, contentType, <<>>, FALSE, FALSE)
     ELSE /\ call' = [kind |-> "quick", movieTitle |-> movieTitle, limit |-> limit,
                      contentType |-> contentType]
          /\ pc' = "q_resolve"
          /\ ret' = NoReturn
          /\ UNCHANGED <<locals, faulted, issued>>
  /\ UNCHANGED <<reddit, cache, aiParser, now, backend, memo, vin, vret, faultsLeft>>

\* a caller asks for a quick harvest
QuickCall ==
  \E movieTitle \in Titles, limit \in Limits, contentType \in ContentType :
    QuickCallWith(movieTitle, limit, contentType)

\* lines 391-402: the harvested title is looked up in the catalog for its
\* genres and its release year; a failure leaves both null
QuickResolve ==
  /\ pc = "q_resolve"
  /\ \E bad \in BadSets, genreOutcome \in Outcomes :
      \E r \in {validate(cache, now, call.movieTitle, NoText, call.contentType, bad)} :
       LET found == ~r.threw /\ Len(r.data) > 0
           releaseDate == IF Truthy(r.data[1].release_date) THEN r.data[1].release_date
                          ELSE r.data[1].first_air_date
           failures == Cardinality(bad) + (IF genreOutcome = "error" THEN 1 ELSE 0)
       IN /\ bad \subseteq (IF r.queried THEN {ToLower(call.movieTitle)} ELSE {})
          /\ genreOutcome = "error" => found
          /\ failures <= faultsLeft
          /\ faultsLeft' = faultsLeft - failures
          /\ faulted' = faulted \cup (IF bad # {} THEN {"catalog"} ELSE {})
                                \cup (IF genreOutcome = "error" THEN {"genres"} ELSE {})
          /\ issued' = issued \cup (IF r.queried THEN {"catalog"} ELSE {})
                              \cup (IF found THEN {"genres"} ELSE {})
          /\ cache' = r.cache
          /\ originalGenres' = IF found
                               THEN getMovieGenres(r.data[1].id, call.contentType, genreOutcome)
                               ELSE <<>>
          /\ releaseYear' = IF found /\ Truthy(releaseDate) THEN YearPart(releaseDate)
                            ELSE NoText
          /\ subIdx' = 1
          /\ pc' = "q_search"
          /\ UNCHANGED <<reddit, aiParser, now, backend, memo, vin, vret, call, allResults, i,
                         shouldStop, postsProcessed, recommendations, tasks, postIdx, ret,
                         callsLeft>>

\* lines 461-483: the search of the next community resolves or fails
QuickSearch ==
  /\ pc = "q_search"
  /\ \E outcome \in Outcomes :
      \E r \in {quickSearch(reddit, backend, quickSubreddits(call.contentType)[subIdx], outcome)} :
       LET subreddits == quickSubreddits(call.contentType)
       IN /\ subIdx <= Len(subreddits)
          /\ outcome = "error" => faultsLeft > 0
          /\ faultsLeft' = IF outcome = "error" THEN faultsLeft - 1 ELSE faultsLeft
          /\ IF r.threw
             THEN \* the catch of lines 777-780
                  /\ Returns(<<>>, FALSE, FALSE, {"search"})
                  /\ UNCHANGED <<reddit, cache, aiParser, now, backend, memo, vin, vret, callsLeft>>
             ELSE /\ allResults' = allResults \o r.posts
                  /\ faulted' = IF outcome = "error" THEN faulted \cup {"search"} ELSE faulted
                  /\ subIdx' = subIdx + 1
                  /\ issued' = IF reddit = "null" THEN issued ELSE issued \cup {"search"}
                  /\ pc' = IF outcome = "ok" THEN "q_pause"
                           ELSE IF subIdx < Len(subreddits) THEN "q_search" ELSE "q_batch"
                  /\ UNCHANGED <<reddit, cache, aiParser, now, backend, memo, vin, vret, call,
                                 originalGenres, releaseYear, i, shouldStop, postsProcessed,
                                 recommendations, tasks, postIdx, ret, callsLeft>>

\* line 478: the sleep(500) after a search that succeeded is over, and the
\* loop goes to the next community, or to the batches
QuickPause ==
  /\ pc = "q_pause"
  /\ pc' = IF subIdx <= Len(quickSubreddits(call.contentType)) THEN "q_search" ELSE "q_batch"
  /\ UNCHANGED <<call, locals, ret, faulted, issued>>
  /\ UNCHANGED <<reddit, cache, aiParser, now, backend, memo, vin, vret, faultsLeft, callsLeft>>

\* a member of a batch: the post, where its async function stands, the
\* locals of that function, and the extractions it has asked for so far:
\* "ai-batch" for extractTitlesFromMultipleComments, "comment" for
\* extractRecommendationsFromPost on a comment, and "ai" and "pattern" for
\* the strategies such a call ran
Task(post, at) ==
  [post |-> post, pc |-> at, top |-> <<>>, titles |-> <<>>, t |-> 0, j |-> 0,
   results |-> <<>>, idx |-> 0, m |-> 0, matched |-> <<>>, asked |-> {}]

\* What one member runs on: the Map and the stop flag it shares with the
\* other members, and its own locals
Frame(map, stop, task) == [recommendations |-> map, shouldStop |-> stop, task |-> task]

\* the member's function returns
taskDone(f) == [f EXCEPT !.task = [Task(f.task.post, "done") EXCEPT !.asked = f.task.asked]]

\* the context of a mention in a post: subreddit display name, url
contextOf(post, source, score) == Context(source, post.subreddit, score, post.permalink)

\* lines 675-692: the head of the loop over the batches of five comments,
\* up to the await of the extractions of the batch that starts at j
commentBatchSize == 5

commentLoop(f, limit) ==
  IF f.task.j > Len(f.task.top) THEN taskDone(f)
  ELSE IF Len(f.recommendations) >= limit
  THEN taskDone([f EXCEPT !.shouldStop = TRUE])
  ELSE [f EXCEPT !.task.pc = "extract"]

\* line 672: the pattern path is entered when the AI batch gave nothing
regexEntry(f, limit) ==
  IF ~f.shouldStop /\ Len(f.recommendations) < limit
  THEN commentLoop([f EXCEPT !.task.j = 1], limit)
  ELSE taskDone(f)

\* lines 694-739: the loops over the results of a comment batch (idx) and
\* over the movies of one comment (m; 0 at the head of the idx loop), run up
\* to the next await: the genre lookup of a movie when the genres of the
\* harvested title are known
RECURSIVE mergeLoop(_, _, _)
mergeLoop(f, limit, genresKnown) ==
  LET k == f.task
      afterIdx(g) ==
        IF g.shouldStop THEN taskDone(g)
        ELSE commentLoop([g EXCEPT !.task.j = k.j + commentBatchSize,
                                   !.task.results = <<>>,
                                   !.task.idx = 0, !.task.m = 0], limit)
      comment == k.top[k.j + k.idx - 1]
  IN IF k.m = 0
     THEN IF k.idx > Len(k.results) \/ f.shouldStop THEN afterIdx(f)
          ELSE IF Len(k.results[k.idx]) = 0
          THEN mergeLoop([f EXCEPT !.task.idx = k.idx + 1], limit, genresKnown)
          ELSE mergeLoop([f EXCEPT !.task.m = 1], limit, genresKnown)
     ELSE IF k.m > Len(k.results[k.idx])
     THEN IF f.shouldStop THEN afterIdx(f)
          ELSE mergeLoop([f EXCEPT !.task.idx = k.idx + 1, !.task.m = 0], limit, genresKnown)
     ELSE IF Len(f.recommendations) >= limit
     THEN afterIdx([f EXCEPT !.shouldStop = TRUE])
     ELSE IF genresKnown
     THEN [f EXCEPT !.task.pc = "genres"]
     ELSE mergeLoop(
            [f EXCEPT !.recommendations =
                        addOrUpdateRecommendation(f.recommendations, k.results[k.idx][k.m],
                          contextOf(k.post, "comment",
                                    IF comment.score = 0 THEN 1 ELSE comment.score)),
                      !.task.m = k.m + 1],
            limit, genresKnown)

\* lines 619-631: the head of the loop over the AI titles, up to the await
\* of the validation of title t
aiLoop(f, limit) ==
  IF f.task.t > Len(f.task.titles) THEN taskDone(f)
  ELSE IF Len(f.recommendations) >= limit
  THEN taskDone([f EXCEPT !.shouldStop = TRUE])
  ELSE [f EXCEPT !.task.pc = "aivalidate"]

\* lines 512-516: the posts of the batch with a positive relevance, the most
\* relevant first
moreRelevant(a, b) == a.relevance > b.relevance

\* the filter of line 515 keeping only the posts that score above 100
RECURSIVE scored_Strict(_, _, _, _)
scored_Strict(batch, movieTitle, year, n) ==
  IF n > Len(batch) THEN <<>>
  ELSE LET relevance == postRelevance(batch[n].title, movieTitle, year)
       IN (IF relevance > 100 THEN <<[post |-> batch[n], relevance |-> relevance]>> ELSE <<>>)
          \o scored_Strict(batch, movieTitle, year, n + 1)

RECURSIVE scored(_, _, _, _)
scored(batch, movieTitle, year, n) ==
  IF n > Len(batch) THEN <<>>
  ELSE LET relevance == postRelevance(batch[n].title, movieTitle, year)
       IN (IF relevance > 0 THEN <<[post |-> batch[n], relevance |-> relevance]>> ELSE <<>>)
          \o scored(batch, movieTitle, year, n + 1)

scoredBatch(batch, movieTitle, year) ==
  LET items == scored(batch, movieTitle, year, 1)
  IN sortDesc(items, moreRelevant, Len(items))

\* lines 519-583: a member runs to its first await, the fetch of the
\* comments, or returns before it
startTask(post, size, limit, movieTitle, year) ==
  IF size >= limit THEN Task(post, "done")
  ELSE IF ~isAdmitted(post.title, movieTitle, year) THEN Task(post, "done")
  ELSE IF post.num_comments > 0 THEN Task(post, "fetch")
  ELSE Task(post, "done")

\* the loop constants of lines 493-497
minRecommendations == 8
batchSize == 3
maxPostsToProcess == 25

\* the head of the loop over the batches without the test of line 500
QuickBatch_NoHardStop ==
  LET bound == IF Len(allResults) < maxPostsToProcess THEN Len(allResults)
               ELSE maxPostsToProcess
      size == Len(recommendations)
      last == IF i + batchSize < Len(allResults) THEN i + batchSize ELSE Len(allResults)
  IN /\ pc = "q_batch"
     /\ IF Len(allResults) = 0
        THEN Returns(<<>>, FALSE, FALSE, {})
        ELSE IF \/ i >= bound
                \/ (shouldStop /\ size >= minRecommendations)
        THEN Returns(finalResults(recommendations, call.limit), FALSE, FALSE, {})
        ELSE /\ \E batch \in {scoredBatch(Sub(allResults, i + 1, last), call.movieTitle,
                                            releaseYear)} :
                  tasks' = [n \in 1..Len(batch) |->
                              startTask(batch[n].post, size, call.limit, call.movieTitle,
                                        releaseYear)]
             /\ pc' = "q_wait"
             /\ UNCHANGED <<call, originalGenres, releaseYear, allResults, subIdx, i,
                            shouldStop, postsProcessed, recommendations, postIdx, ret,
                            faulted, issued>>
     /\ UNCHANGED <<reddit, cache, aiParser, now, backend, memo, vin, vret, faultsLeft, callsLeft>>

\* lines 485-518 and 764-775: no post at all returns []; the head of the
\* loop over the batches either leaves the loop, and the records are sorted,
\* cut and returned, or starts the members of the next batch
QuickBatch ==
  LET bound == IF Len(allResults) < maxPostsToProcess THEN Len(allResults)
               ELSE maxPostsToProcess
      size == Len(recommendations)
      last == IF i + batchSize < Len(allResults) THEN i + batchSize ELSE Len(allResults)
  IN /\ pc = "q_batch"
     /\ IF Len(allResults) = 0
        THEN Returns(<<>>, FALSE, FALSE, {})
        ELSE IF \/ i >= bound
                \/ size >= call.limit
                \/ (shouldStop /\ size >= minRecommendations)
        THEN Returns(finalResults(recommendations, call.limit), FALSE, FALSE, {})
        ELSE /\ \E batch \in {scoredBatch(Sub(allResults, i + 1, last), call.movieTitle,
                                            releaseYear)} :
                  tasks' = [n \in 1..Len(batch) |->
                              startTask(batch[n].post, size, call.limit, call.movieTitle,
                                        releaseYear)]
             /\ pc' = "q_wait"
             /\ UNCHANGED <<call, originalGenres, releaseYear, allResults, subIdx, i,
                            shouldStop, postsProcessed, recommendations, postIdx, ret,
                            faulted, issued>>
     /\ UNCHANGED <<reddit, cache, aiParser, now, backend, memo, vin, vret, faultsLeft, callsLeft>>

\* lines 746-761: every member of the batch has returned; the stop
\* conditions leave the loop, otherwise the next batch is i + 3
QuickJoin ==
  LET size == Len(recommendations)
  IN /\ pc = "q_wait"
     /\ \A n \in 1..Len(tasks) : tasks[n].pc = "done"
     /\ IF size >= call.limit \/ (shouldStop /\ size >= minRecommendations)
        THEN Returns(finalResults(recommendations, call.limit), FALSE, FALSE, {})
        ELSE /\ postsProcessed' = postsProcessed + 1
             /\ tasks' = <<>>
             /\ pc' = "q_sleep"
             /\ UNCHANGED <<call, originalGenres, releaseYear, allResults, subIdx, i,
                            shouldStop, recommendations, postIdx, ret, faulted, issued>>
     /\ UNCHANGED <<reddit, cache, aiParser, now, backend, memo, vin, vret, faultsLeft, callsLeft>>

\* the sleep after a batch in a loop that starts over
QuickSleep_StartsOver ==
  /\ pc = "q_sleep"
  /\ i' = 0
  /\ postsProcessed' = 0
  /\ recommendations' = <<>>
  /\ shouldStop' = FALSE
  /\ pc' = "q_batch"
  /\ UNCHANGED <<call, originalGenres, releaseYear, allResults, subIdx, tasks, postIdx, ret,
                 faulted, issued>>
  /\ UNCHANGED <<reddit, cache, aiParser, now, backend, memo, vin, vret, faultsLeft, callsLeft>>

\* lines 761 and 499: the sleep(800) after a batch is over; i += batchSize
QuickSleep ==
  /\ pc = "q_sleep"
  /\ i' = i + batchSize
  /\ pc' = "q_batch"
  /\ UNCHANGED <<call, originalGenres, releaseYear, allResults, subIdx, shouldStop,
                 postsProcessed, recommendations, tasks, postIdx, ret, faulted, issued>>
  /\ UNCHANGED <<reddit, cache, aiParser, now, backend, memo, vin, vret, faultsLeft, callsLeft>>

\* what a step of member k leaves: the frame and the cache, the kinds of
\* external call it issued, and those that failed
TaskStep(k, f, newCache, issuedKinds, failedKinds, failures) ==
  /\ tasks' = [tasks EXCEPT ![k] = f.task]
  /\ recommendations' = f.recommendations
  /\ shouldStop' = f.shouldStop
  /\ cache' = newCache
  /\ issued' = issued \cup issuedKinds
  /\ faulted' = faulted \cup failedKinds
  /\ failures <= faultsLeft
  /\ faultsLeft' = faultsLeft - failures
  /\ UNCHANGED <<reddit, aiParser, now, backend, memo, vin, vret, call, pc, originalGenres,
                 releaseYear, allResults, subIdx, i, postsProcessed, postIdx, ret, callsLeft>>

FrameOf(k) == Frame(recommendations, shouldStop, tasks[k])

\* lines 584-613 and 672: the fetch of the post's comments resolves, and the
\* fifteen best comments go to the AI batch or to the pattern path; a failed
\* fetch is caught and ends the member
TaskFetch(k) ==
  /\ pc = "q_wait"
  /\ tasks[k].pc = "fetch"
  /\ \E outcome \in Outcomes :
      \E top \in {topComments(tasks[k].post.comments)} :
       LET f == FrameOf(k)
           g == [f EXCEPT !.task.top = top]
       IN /\ IF outcome = "error"
             THEN TaskStep(k, taskDone(f), cache, {"fetch"}, {"fetch"}, 1)
             ELSE IF aiAvailable /\ Len(top) > 0
             THEN TaskStep(k, [g EXCEPT !.task.pc = "aibatch"], cache, {"fetch"}, {}, 0)
             ELSE TaskStep(k, regexEntry(g, call.limit), cache, {"fetch"}, {}, 0)

\* lines 609-631 and 667-672: the AI batch extraction resolves; with titles
\* the loop over them starts, with none the pattern path is entered
TaskAiBatch(k) ==
  /\ pc = "q_wait"
  /\ tasks[k].pc = "aibatch"
  /\ \E outcome \in AiOutcomes :
      \E aiTitles \in {aiBatchTitlesOf(bodies(tasks[k].top), outcome)} :
       LET f == [FrameOf(k) EXCEPT !.task.asked = @ \cup {"ai-batch"}]
           g == [f EXCEPT !.task.titles = aiTitles, !.task.t = 1]
           failed == outcome = "error"
       IN /\ TaskStep(k,
                      IF Len(aiTitles) > 0 THEN aiLoop(g, call.limit)
                      ELSE regexEntry(f, call.limit),
                      cache, {"ai"}, IF failed THEN {"ai"} ELSE {}, IF failed THEN 1 ELSE 0)

\* the movie of an AI title and its match
aiMovie(title, matchedMovie) ==
  [extractedTitle |-> title, tmdbMatch |-> matchedMovie,
   confidence |-> calculateMatchConfidence(title, displayName(matchedMovie))]

\* the score of a mention found by the AI batch (line 655)
aiBatchScore == 10

\* lines 631-665: the validation of an AI title resolves; a match goes to
\* the genre lookup when the genres of the harvested title are known, and
\* to the Map otherwise
TaskAiValidate(k) ==
  /\ pc = "q_wait"
  /\ tasks[k].pc = "aivalidate"
  /\ \E bad \in BadSets :
      \E item \in {tasks[k].titles[tasks[k].t]} :
      \E r \in {validate(cache, now, item.title, item.year, call.contentType, bad)} :
       LET f == FrameOf(k)
           movie == aiMovie(item.title, r.data[1])
           g == IF r.threw \/ Len(r.data) = 0 THEN [f EXCEPT !.task.pc = "aisleep"]
                ELSE IF Len(originalGenres) > 0
                THEN [f EXCEPT !.task.pc = "aigenres", !.task.matched = movie]
                ELSE [f EXCEPT !.task.pc = "aisleep",
                               !.recommendations =
                                  addOrUpdateRecommendation(f.recommendations, movie,
                                    contextOf(f.task.post, "ai-batch", aiBatchScore))]
       IN /\ bad \subseteq (IF r.queried THEN {ToLower(item.title)} ELSE {})
          /\ TaskStep(k, g, r.cache, IF r.queried THEN {"catalog"} ELSE {},
                      IF bad # {} THEN {"catalog"} ELSE {}, Cardinality(bad))

\* lines 638-659: the genre lookup of an AI match resolves; a match that
\* shares no genre is skipped (and the loop goes on without the sleep)
TaskAiGenres(k) ==
  \E outcome \in Outcomes :
    LET f == FrameOf(k)
        movie == f.task.matched
        movieGenres == getMovieGenres(movie.tmdbMatch.id, call.contentType, outcome)
        failed == outcome = "error"
        g == IF ~isGenreSimilar(originalGenres, movieGenres)
             THEN aiLoop([f EXCEPT !.task.t = f.task.t + 1, !.task.matched = <<>>],
                         call.limit)
             ELSE [f EXCEPT !.task.pc = "aisleep", !.task.matched = <<>>,
                            !.recommendations =
                               addOrUpdateRecommendation(f.recommendations, movie,
                                 contextOf(f.task.post, "ai-batch", aiBatchScore))]
    IN /\ pc = "q_wait"
       /\ tasks[k].pc = "aigenres"
       /\ TaskStep(k, g, cache, {"genres"}, IF failed THEN {"genres"} ELSE {},
                   IF failed THEN 1 ELSE 0)

\* line 665: the sleep after an AI title is over
TaskAiSleep(k) ==
  LET f == FrameOf(k)
  IN /\ pc = "q_wait"
     /\ tasks[k].pc = "aisleep"
     /\ TaskStep(k, aiLoop([f EXCEPT !.task.t = f.task.t + 1], call.limit), cache,
                 {}, {}, 0)

\* acc after the extraction r of one comment
withExtraction(acc, r) ==
  [results |-> Append(acc.results, r.movies),
   cache |-> r.cache,
   queried |-> acc.queried \cup r.queried,
   failed |-> acc.failed \cup r.failed,
   aiCalled |-> acc.aiCalled \/ r.aiCalled,
   pattern |-> acc.pattern \/ r.strategy = "pattern"]

\* The extractions of the comments n.. of a batch, the cache threaded from
\* one to the next
RECURSIVE extractBatch(_, _, _, _, _, _, _, _, _)
extractBatch(acc, time, comments, originalTitle, contentType, ai, outcome, bad, n) ==
  IF n > Len(comments) THEN acc
  ELSE extractBatch(
         withExtraction(acc,
                        extractRecommendationsFromPost(acc.cache, time, comments[n].body,
                                                       originalTitle, contentType, ai,
                                                       outcome, bad)),
         time, comments, originalTitle, contentType, ai, outcome, bad, n + 1)

NoExtraction(c) ==
  [results |-> <<>>, cache |-> c, queried |-> {}, failed |-> {}, aiCalled |-> FALSE,
   pattern |-> FALSE]

\* lines 676: topComments.slice(j, j + commentBatchSize)
commentBatch(task) ==
  Sub(task.top, task.j,
      IF task.j + commentBatchSize - 1 < Len(task.top)
      THEN task.j + commentBatchSize - 1 ELSE Len(task.top))

\* lines 684-734: the extractions of a batch of comments resolve, and their
\* movies are merged up to the first genre lookup
TaskExtract(k) ==
  /\ pc = "q_wait"
  /\ tasks[k].pc = "extract"
  /\ \E outcome \in AiOutcomes, bad \in BadSets :
      \E r \in {extractBatch(NoExtraction(cache), now, commentBatch(tasks[k]), call.movieTitle,
                              call.contentType, aiAvailable, outcome, bad, 1)} :
       LET f == FrameOf(k)
           aiFailed == r.aiCalled /\ outcome = "error"
           g == [f EXCEPT !.task.results = r.results, !.task.idx = 1, !.task.m = 0,
                          !.task.asked = @ \cup {"comment"}
                                           \cup (IF r.aiCalled THEN {"ai"} ELSE {})
                                           \cup (IF r.pattern THEN {"pattern"} ELSE {})]
       IN /\ bad \subseteq r.failed
          /\ ~r.aiCalled => outcome = "answer"
          /\ TaskStep(k, mergeLoop(g, call.limit, Len(originalGenres) > 0), r.cache,
                      (IF r.queried # {} THEN {"catalog"} ELSE {})
                        \cup (IF r.aiCalled THEN {"ai"} ELSE {}),
                      (IF r.failed # {} THEN {"catalog"} ELSE {})
                        \cup (IF aiFailed THEN {"ai"} ELSE {}),
                      Cardinality(r.failed) + (IF aiFailed THEN 1 ELSE 0))

\* lines 716-734: the genre lookup of a comment's movie resolves; the movie
\* is skipped or merged, and the loops go on
TaskGenres(k) ==
  \E outcome \in Outcomes :
    LET f == FrameOf(k)
        t == f.task
        movie == t.results[t.idx][t.m]
        comment == t.top[t.j + t.idx - 1]
        movieGenres == getMovieGenres(movie.tmdbMatch.id, call.contentType, outcome)
        failed == outcome = "error"
        merged == IF isGenreSimilar(originalGenres, movieGenres)
                  THEN addOrUpdateRecommendation(f.recommendations, movie,
                         contextOf(t.post, "comment",
                                   IF comment.score = 0 THEN 1 ELSE comment.score))
                  ELSE f.recommendations
        g == [f EXCEPT !.recommendations = merged, !.task.m = t.m + 1]
    IN /\ pc = "q_wait"
       /\ tasks[k].pc = "genres"
       /\ TaskStep(k, mergeLoop(g, call.limit, Len(originalGenres) > 0), cache,
                   {"genres"}, IF failed THEN {"genres"} ELSE {}, IF failed THEN 1 ELSE 0)

(***************************************************************************)
(* Comprehensive harvest: getRecommendations                               *)
(***************************************************************************)
\* the cache key of a comprehensive harvest (line 787)
recsCacheKey(movieTitle) == K_reddit_recs_ \o ToLower(movieTitle)

\* the most comments of a post a comprehensive harvest reads (line 827)
maxComments == 40

\* getRecommendations(movieTitle, limit, contentType) is called: [] at once
\* when the engine is not available, the cached list when getCached finds a
\* live entry under the key, and otherwise the fetcher starts
ComprehensiveCall ==
  \E movieTitle \in Titles, limit \in Limits, contentType \in ContentType :
    LET key == recsCacheKey(movieTitle)
    IN /\ pc = "idle"
       /\ callsLeft > 0
       /\ callsLeft' = callsLeft - 1
       /\ IF ~isAvailable
          THEN ReturnsAtOnce("comprehensive", movieTitle, limit, contentType,
                             <<>>, FALSE, FALSE)
          ELSE IF ~cache.defined
          THEN ReturnsAtOnce("comprehensive", movieTitle, limit, contentType,
                             <<>>, TRUE, FALSE)
          ELSE IF cacheHit(cache, key, now)
          THEN ReturnsAtOnce("comprehensive", movieTitle, limit, contentType,
                             cache.entries[key].data, FALSE, TRUE)
          ELSE /\ call' = [kind |-> "comprehensive", movieTitle |-> movieTitle,
                           limit |-> limit, contentType |-> contentType]
               /\ pc' = "c_search"
               /\ subIdx' = 1
               /\ ret' = NoReturn
               /\ UNCHANGED <<originalGenres, releaseYear, allResults, i, shouldStop,
                              postsProcessed, recommendations, tasks, postIdx,
                              faulted, issued>>
       /\ UNCHANGED <<reddit, cache, aiParser, now, backend, memo, vin, vret, faultsLeft>>

\* the loop over the communities goes to the next one, or is over
nextSubreddit ==
  /\ subIdx' = subIdx + 1
  /\ pc' = IF subIdx < Len(comprehensiveSubreddits(call.contentType))
           THEN "c_search" ELSE "c_finish"
  /\ allResults' = <<>>
  /\ postIdx' = 0

\* lines 795-808 and 849-851: the search of the next community resolves or
\* fails; a failure is caught and the loop goes on
ComprehensiveSearch ==
  /\ pc = "c_search"
  /\ \E outcome \in Outcomes :
      \E r \in {comprehensiveSearch(reddit, backend,
                                     comprehensiveSubreddits(call.contentType)[subIdx],
                                     outcome)} :
       LET failed == outcome = "error"
       IN /\ failed => faultsLeft > 0
          /\ faultsLeft' = IF failed THEN faultsLeft - 1 ELSE faultsLeft
          /\ IF r.threw
             THEN /\ Returns(<<>>, TRUE, FALSE, {"search"})
                  /\ UNCHANGED <<reddit, cache, aiParser, now, backend, memo, vin, vret, callsLeft>>
             ELSE /\ faulted' = IF failed THEN faulted \cup {"search"} ELSE faulted
                  /\ issued' = issued \cup {"search"}
                  /\ IF Len(r.posts) = 0
                     THEN nextSubreddit
                     ELSE /\ allResults' = r.posts
                          /\ postIdx' = 1
                          /\ pc' = "c_post"
                          /\ UNCHANGED subIdx
                  /\ UNCHANGED <<reddit, cache, aiParser, now, backend, memo, vin, vret, call,
                                 originalGenres, releaseYear, i, shouldStop, postsProcessed,
                                 recommendations, tasks, ret, callsLeft>>

\* comments.slice(0, 40) without those whose body is missing or shorter
\* than five characters (lines 827-829)
readComments(comments) == longComments(Slice(comments, maxComments), 1)

\* movies.forEach(movie => addOrUpdateRecommendation(...)) for the movies of
\* comment n, from movie m on, and then for the comments after it
RECURSIVE mergeComments(_, _, _, _, _)
mergeComments(map, results, comments, subreddit, at) ==
  IF at.n > Len(results) THEN map
  ELSE IF at.m > Len(results[at.n])
  THEN mergeComments(map, results, comments, subreddit,
                     [at EXCEPT !.n = at.n + 1, !.m = 1])
  ELSE mergeComments(
         addOrUpdateRecommendation(map, results[at.n][at.m],
           Context("comment", subreddit, comments[at.n].score, at.url)),
         results, comments, subreddit, [at EXCEPT !.m = at.m + 1])

\* lines 810-846: the next post of the community; with the limit reached
\* the loop over the posts is left, otherwise the comments are fetched (a
\* failure is caught: the post yields nothing), each comment is extracted
\* and its movies are merged
ComprehensivePost ==
  /\ pc = "c_post"
  /\ \E fetchOutcome \in Outcomes, outcome \in AiOutcomes, bad \in BadSets :
      \E comments \in {IF /\ Len(recommendations) < call.limit
                            /\ allResults[postIdx].num_comments > 0
                            /\ fetchOutcome = "ok"
                         THEN readComments(allResults[postIdx].comments) ELSE <<>>} :
      \E r \in {extractBatch(NoExtraction(cache), now, comments, call.movieTitle,
                              call.contentType, aiAvailable, outcome, bad, 1)} :
       LET post == allResults[postIdx]
           subreddit == comprehensiveSubreddits(call.contentType)[subIdx]
           reached == Len(recommendations) >= call.limit
           fetched == ~reached /\ post.num_comments > 0
           aiFailed == r.aiCalled /\ outcome = "error"
           failures == (IF fetchOutcome = "error" THEN 1 ELSE 0) + Cardinality(r.failed)
                       + (IF aiFailed THEN 1 ELSE 0)
       IN /\ fetchOutcome = "error" => fetched
          /\ bad \subseteq r.failed
          /\ ~r.aiCalled => outcome = "answer"
          /\ failures <= faultsLeft
          /\ faultsLeft' = faultsLeft - failures
          /\ faulted' = faulted \cup (IF fetchOutcome = "error" THEN {"fetch"} ELSE {})
                                \cup (IF r.failed # {} THEN {"catalog"} ELSE {})
                                \cup (IF aiFailed THEN {"ai"} ELSE {})
          /\ issued' = issued \cup (IF fetched THEN {"fetch"} ELSE {})
                              \cup (IF r.queried # {} THEN {"catalog"} ELSE {})
                              \cup (IF r.aiCalled THEN {"ai"} ELSE {})
          /\ cache' = r.cache
          /\ recommendations' = mergeComments(recommendations, r.results, comments, subreddit,
                                              [n |-> 1, m |-> 1, url |-> post.permalink])
          /\ IF reached \/ postIdx = Len(allResults)
             THEN nextSubreddit
             ELSE /\ postIdx' = postIdx + 1
                  /\ UNCHANGED <<allResults, subIdx, pc>>
          /\ UNCHANGED <<reddit, aiParser, now, backend, memo, vin, vret, call, originalGenres,
                         releaseYear, i, shouldStop, postsProcessed, tasks, ret, callsLeft>>

\* lines 854-860 and 55-58: the records are sorted and cut, getCached stores
\* the list under the key and the call resolves to it
ComprehensiveFinish ==
  /\ pc = "c_finish"
  /\ \E list \in {finalResults(recommendations, call.limit)} :
        /\ cache' = cacheSet(cache, recsCacheKey(call.movieTitle), list, now)
        /\ Returns(list, FALSE, FALSE, {})
        /\ UNCHANGED <<reddit, aiParser, now, backend, memo, vin, vret, faultsLeft, callsLeft>>

(***************************************************************************)
(* The engine under harvest calls                                          *)
(***************************************************************************)
NoInput == [title |-> T_Contact, year |-> NoText, contentType |-> "movie", response |-> <<>>]

\* the engine as constructed, with the budgets of the callers (calls) and of
\* the environment (failures of external calls)
Started(calls, failures) ==
  /\ memo = TextTables
  /\ \E credentials \in Credentials, groqKey \in BOOLEAN : Constructed(credentials, groqKey)
  /\ vin = NoInput
  /\ vret = NoCall
  /\ NeverCalled
  /\ callsLeft = calls
  /\ faultsLeft = failures

Init ==
  /\ Started(MaxCalls, MaxFaults)
  /\ backend = "forum"

Next ==
  \/ QuickCall
  \/ QuickResolve
  \/ QuickSearch
  \/ QuickPause
  \/ QuickBatch
  \/ QuickJoin
  \/ QuickSleep
  \/ \E k \in DOMAIN tasks : TaskFetch(k)
  \/ \E k \in DOMAIN tasks : TaskAiBatch(k)
  \/ \E k \in DOMAIN tasks : TaskAiValidate(k)
  \/ \E k \in DOMAIN tasks : TaskAiGenres(k)
  \/ \E k \in DOMAIN tasks : TaskAiSleep(k)
  \/ \E k \in DOMAIN tasks : TaskExtract(k)
  \/ \E k \in DOMAIN tasks : TaskGenres(k)
  \/ ComprehensiveCall
  \/ ComprehensiveSearch
  \/ ComprehensivePost
  \/ ComprehensiveFinish

vars == vvars

Spec == Init /\ [][Next]_vars

(***************************************************************************)
(* Comprehensive harvests repeated while time passes, no external call     *)
(* failing                                                                 *)
(***************************************************************************)
InitRepeat ==
  /\ Started(MaxRepeats, 0)
  /\ backend = "forum"

NextRepeat ==
  \/ HarvestTick
  \/ ComprehensiveCall
  \/ ComprehensiveSearch
  \/ ComprehensivePost
  \/ ComprehensiveFinish

SpecRepeat == InitRepeat /\ [][NextRepeat]_vars

(***************************************************************************)
(* The end-to-end scenario: one quick harvest for "Arrival" on a platform  *)
(* of one relevant post with three comments                                *)
(***************************************************************************)
\* the limit the scenario asks for
ScenarioLimit == 5

InitE2E ==
  /\ Started(1, MaxFaults)
  /\ reddit = "client"
  /\ backend \in {"scenario", "scenarioYear"}

ScenarioCall == QuickCallWith(T_Arrival, ScenarioLimit, "movie")

NextE2E ==
  \/ ScenarioCall
  \/ QuickResolve
  \/ QuickSearch
  \/ QuickPause
  \/ QuickBatch
  \/ QuickJoin
  \/ QuickSleep
  \/ \E k \in DOMAIN tasks : TaskFetch(k)
  \/ \E k \in DOMAIN tasks : TaskAiBatch(k)
  \/ \E k \in DOMAIN tasks : TaskAiValidate(k)
  \/ \E k \in DOMAIN tasks : TaskAiGenres(k)
  \/ \E k \in DOMAIN tasks : TaskAiSleep(k)
  \/ \E k \in DOMAIN tasks : TaskExtract(k)
  \/ \E k \in DOMAIN tasks : TaskGenres(k)

SpecE2E == InitE2E /\ [][NextE2E]_vars

(***************************************************************************)
(* A quick harvest for "Arrival" on the platform of the crowded post       *)
(***************************************************************************)
\* the limits asked for: the eight films of the post, or one more
CrowdLimits == {8, 9}

InitCrowd ==
  /\ Started(1, MaxFaults)
  /\ reddit = "client"
  /\ backend = "crowd"

CrowdCall == \E limit \in CrowdLimits : QuickCallWith(T_Arrival, limit, "movie")

NextCrowd ==
  \/ CrowdCall
  \/ QuickResolve
  \/ QuickSearch
  \/ QuickPause
  \/ QuickBatch
  \/ QuickJoin
  \/ QuickSleep
  \/ \E k \in DOMAIN tasks : TaskFetch(k)
  \/ \E k \in DOMAIN tasks : TaskAiBatch(k)
  \/ \E k \in DOMAIN tasks : TaskAiValidate(k)
  \/ \E k \in DOMAIN tasks : TaskAiGenres(k)
  \/ \E k \in DOMAIN tasks : TaskAiSleep(k)
  \/ \E k \in DOMAIN tasks : TaskExtract(k)
  \/ \E k \in DOMAIN tasks : TaskGenres(k)

SpecCrowd == InitCrowd /\ [][NextCrowd]_vars

(***************************************************************************)
(* Properties of the harvest calls                                         *)
(***************************************************************************)
\* the records of the list are in the order of non-increasing finalScore
Ranked(list) ==
  \A n \in 1..(Len(list) - 1) : list[n].finalScore >= list[n + 1].finalScore

\* the catalog ids of the records of the list
IdsOf(list) == {list[n].id : n \in 1..Len(list)}

\* a harvest call of the kind has returned
Returned(kind) == ret.done /\ ret.kind = kind

\* C1: the list a quick harvest returns has at most `limit` records and is
\* ordered by non-increasing finalScore, whatever the title, the content
\* type, the limit and the answers of the external collaborators
C1_QuickBoundedRanked ==
  Returned("quick") => Len(ret.list) <= ret.limit /\ Ranked(ret.list)

\* a quick harvest returned as many records as its limit allows, the first of
\* a strictly higher score than the second
C1_Witness ==
  /\ Returned("quick")
  /\ Len(ret.list) = ret.limit
  /\ Len(ret.list) >= 2
  /\ ret.list[1].finalScore > ret.list[2].finalScore

\* C2: the list a comprehensive harvest returns is cut to the limit of that
\* very call, and no list of an earlier call is handed to a later one, also
\* when an earlier harvest for the same title completed less than 24 hours
\* before
C2_OwnLimitOwnRecords ==
  Returned("comprehensive") =>
    /\ Len(ret.list) <= ret.limit
    /\ ret.fromCache => ret.list = <<>>

\* C3: no two records of a returned list have the same catalog id, and every
\* record has mentions >= 1, however many comments name the same title
C3_Deduplicated ==
  ret.done =>
    /\ \A m, n \in 1..Len(ret.list) : ret.list[m].id = ret.list[n].id => m = n
    /\ \A n \in 1..Len(ret.list) : ret.list[n].mentions >= 1

\* a harvest returned a record that several comments mention, next to
\* another record
C3_Witness ==
  /\ ret.done
  /\ Len(ret.list) >= 2
  /\ \E n \in 1..Len(ret.list) : ret.list[n].mentions >= 2

\* C4: a harvest call, quick or comprehensive, never rejects: whichever
\* search, comment fetch, catalog query, genre lookup or AI call fails during
\* it, the call resolves to a list
C4_HarvestNeverThrows ==
  ret.done => ~ret.threw

\* a comprehensive harvest returned after one of its searches had failed
C4_Witness ==
  /\ Returned("comprehensive")
  /\ "search" \in ret.faulted
  /\ ~ret.threw

\* C5: on an engine constructed with a credential missing, isAvailable() is
\* false for good, no harvest call is ever in progress, every harvest call
\* returns the empty list without raising and without issuing any external
\* call, and the cache is never created or written
C5_UnavailableForGood ==
  aiParser = Undefined =>
    /\ ~isAvailable
    /\ pc = "idle"
    /\ issued = {}
    /\ cache = NoCache
    /\ ret.done => ret.list = <<>> /\ ~ret.threw /\ ret.issued = {}

\* a harvest call has returned on an engine constructed with a credential
\* missing
C5_Witness ==
  /\ aiParser = Undefined
  /\ ret.done
  /\ ret.list = <<>>

\* a step in which an external call fails
Failing == faultsLeft' < faultsLeft

\* every record of the Map is still in it after the step, with no fewer mentions
RecordsKept ==
  /\ Len(recommendations') >= Len(recommendations)
  /\ \A n \in 1..Len(recommendations) :
        /\ recommendations'[n].id = recommendations[n].id
        /\ recommendations'[n].mentions >= recommendations[n].mentions

\* C6: a transport error is confined to the item it hit.  A step in which an
\* external call fails never ends the harvest call and discards no record
\* accumulated so far; a failed search of a community leaves the posts found
\* in the other communities and the records as they are, and a failed comment
\* fetch ends the one batch member it hit and leaves the records and every
\* other member as they are
C6_ErrorConfined ==
  [][Failing =>
       /\ pc' # "idle"
       /\ call' = call
       /\ RecordsKept
       /\ pc = "q_search" => allResults' = allResults /\ recommendations' = recommendations
       /\ pc = "c_search" => recommendations' = recommendations
       /\ \A k \in DOMAIN tasks :
            tasks[k].pc = "fetch" /\ tasks'[k] # tasks[k] =>
              /\ tasks'[k].pc = "done"
              /\ recommendations' = recommendations
              /\ \A n \in DOMAIN tasks : n # k => tasks'[n] = tasks[n]]_vars

\* a quick harvest returned records although the comment fetch of one of its
\* posts had failed
C6_Witness ==
  /\ Returned("quick")
  /\ "fetch" \in ret.faulted
  /\ Len(ret.list) >= 1

\* C7: the end-to-end scenario with the AI backend absent and no external
\* call failing: the quick harvest for "Arrival" with limit 5 returns exactly
\* the two records Annihilation and Contact, ordered by finalScore
C7_ScenarioByPatterns ==
  aiParser = "off" /\ Returned("quick") /\ ret.faulted = {} =>
    /\ Len(ret.list) = 2
    /\ IdsOf(ret.list) = {2, 3}
    /\ Ranked(ret.list)

(***************************************************************************)
(* Properties of the cache                                                 *)
(***************************************************************************)
\* the cache holds an entry for the key that is younger than 24 hours
LiveEntry(key) ==
  /\ key \in DOMAIN cache.entries
  /\ now - cache.entries[key].timestamp < 24

\* a comprehensive harvest is called on an engine that is available
ComprehensiveLookup == pc = "idle" /\ callsLeft' < callsLeft /\ isAvailable

\* C11: the cache lookup.  When the key has an entry younger than 24 hours
\* the stored value is returned and the producer is not called; with no
\* entry, or one that is 24 hours old or older, the producer is called and
\* its result replaces the entry with a fresh timestamp; no entry is ever
\* removed, and an entry changes only by being overwritten once it has
\* expired
C11_CacheLookup ==
  [][/\ DOMAIN cache.entries \subseteq DOMAIN cache'.entries
     /\ \A key \in DOMAIN cache'.entries :
          (key \notin DOMAIN cache.entries \/ cache'.entries[key] # cache.entries[key]) =>
             /\ ~LiveEntry(key)
             /\ cache'.entries[key].timestamp = now'
     /\ ComprehensiveLookup =>
          \E title \in Titles :
            IF LiveEntry(recsCacheKey(title))
            THEN /\ Returned("comprehensive")'
                 /\ ret'.fromCache
                 /\ ret'.list = cache.entries[recsCacheKey(title)].data
                 /\ ret'.issued = {}
                 /\ cache' = cache
            ELSE /\ pc' = "c_search"
                 /\ call'.movieTitle = title
     /\ pc = "c_finish" =>
          /\ recsCacheKey(call.movieTitle) \in DOMAIN cache'.entries
          /\ cache'.entries[recsCacheKey(call.movieTitle)] = [data |-> ret'.list, timestamp |-> now']
    ]_vars

\* the second of two comprehensive harvests found the entry of the first
\* expired, ran the producer and replaced the entry
C11_Witness ==
  /\ Returned("comprehensive")
  /\ isAvailable
  /\ callsLeft = 0
  /\ ~ret.fromCache
  /\ ret.at >= 24
  /\ cache.entries[recsCacheKey(ret.movieTitle)] = [data |-> ret.list, timestamp |-> ret.at]

(***************************************************************************)
(* Direct calls of the confidence scorer, on pairs of short texts          *)
(***************************************************************************)
X_The == <<"T","h","e">>
X_a == <<"a">>
X_Matrix == <<"M","a","t","r","i","x">>
X_Reloaded == <<"R","e","l","o","a","d","e","d">>
X_up == <<"u","p">>
X_TheMatrix == X_The \o <<" ">> \o X_Matrix
X_MatrixReloaded == X_Matrix \o <<" ">> \o X_Reloaded

ScoreWords == {X_The, X_a, X_Matrix, X_Reloaded, X_up}

\* the texts of n words, one blank between two words
RECURSIVE PhrasesOf(_)
PhrasesOf(n) ==
  IF n = 1 THEN ScoreWords
  ELSE {p \o <<" ">> \o w : p \in PhrasesOf(n - 1), w \in ScoreWords}

\* the longest text has this many words
MaxWords == 2

\* the empty text, the texts of words, texts of blanks only, and a word in
\* lower case between blanks
ScoreTexts ==
  {<<>>} \cup UNION {PhrasesOf(n) : n \in 1..MaxWords}
         \cup {<<" ">>, <<" ", " ">>, <<" ">> \o ToLower(X_Matrix) \o <<" ">>}

\* the scorer is called up to this many times on a pair
MaxScoreCalls == 2

InitScore ==
  /\ Constructed("complete", FALSE)
  /\ vin \in [extracted : ScoreTexts, tmdbTitle : ScoreTexts]
  /\ vret = NoCall
  /\ backend = "forum"
  /\ memo = [relevance |-> <<>>, admitted |-> <<>>, titles |-> <<>>, aiTitles |-> <<>>,
             aiBatch |-> <<>>]
  /\ NeverCalled
  /\ callsLeft = 0
  /\ faultsLeft = 0

\* a caller evaluates calculateMatchConfidence(extracted, tmdbTitle), and the
\* same with the arguments swapped; vret keeps the values of the call before
ScoreCall ==
  /\ vret.done => vret.calls < MaxScoreCalls
  /\ \E r \in {calculateMatchConfidence(vin.extracted, vin.tmdbTitle)} :
     \E q \in {calculateMatchConfidence(vin.tmdbTitle, vin.extracted)} :
       vret' = [done |-> TRUE,
                calls |-> IF vret.done THEN vret.calls + 1 ELSE 1,
                score |-> r,
                swapped |-> q,
                before |-> IF vret.done THEN vret.score ELSE r]
  /\ UNCHANGED <<reddit, cache, aiParser, now, backend, memo, vin, harvestVars>>

NextScore == ScoreCall

SpecScore == InitScore /\ [][NextScore]_vars

\* C12: the scorer returns exactly 1.0 for score(x, x), for every non-empty
\* string x, also one made of blanks only, of an article only or of words of
\* at most two characters
C12_SelfScoreIsOne ==
  vret.done /\ vin.extracted = vin.tmdbTitle /\ vin.extracted # <<>> =>
    vret.score = ConfUnit

\* the scorer was called on twice the same text of blanks only
C12_Witness ==
  /\ vret.done
  /\ vin.extracted = <<" ", " ">>
  /\ vin.tmdbTitle = <<" ", " ">>
  /\ vret.score = ConfUnit

\* C13: the scorer is asymmetric, in particular score("The Matrix", "Matrix
\* Reloaded") differs from score("Matrix Reloaded", "The Matrix")
C13_Asymmetric ==
  vret.done /\ vin.extracted = X_TheMatrix /\ vin.tmdbTitle = X_MatrixReloaded =>
    vret.score # vret.swapped

\* C14: the result of the scorer lies in [0, 1], is 0 when either string is
\* empty, is the same when the call is repeated with the same arguments, and
\* a call leaves the engine as it is
C14_ScoreInUnitInterval ==
  /\ vret.done =>
       /\ vret.score >= 0 /\ vret.score <= ConfUnit
       /\ (vin.extracted = <<>> \/ vin.tmdbTitle = <<>>) => vret.score = 0
       /\ vret.score = vret.before
  /\ cache = EmptyCache /\ reddit = "client" /\ aiParser = "off" /\ now = 0

\* the scorer was called twice on a pair with an empty string, and on no
\* other state of the engine
C14_Witness ==
  /\ vret.done
  /\ vret.calls = 2
  /\ vin.extracted = <<>>
  /\ vin.tmdbTitle = X_Matrix
  /\ vret.score = 0

\* the three-tier reference, on texts of letters and blanks: equal when
\* case and surrounding blanks are ignored; equal after one leading article
\* and the blanks after it are taken from each; the words of more than two
\* characters that both have, over the number of words of the one that has
\* more
RefWords(s) ==
  {SubSeq(s, p[1], p[2]) :
     p \in {q \in (1..Len(s)) \X (1..Len(s)) :
              /\ q[1] <= q[2]
              /\ \A k \in q[1]..q[2] : s[k] \notin Ws
              /\ q[1] = 1 \/ s[q[1] - 1] \in Ws
              /\ q[2] = Len(s) \/ s[q[2] + 1] \in Ws}}

RefStripArticle(s) ==
  LET arts == {n \in 1..3 : /\ Len(s) > n
                            /\ SubSeq(s, 1, n) \in {W_the, W_a, W_an}
                            /\ s[n + 1] \in Ws}
  IN IF arts = {} THEN s
     ELSE Trim(SubSeq(s, SetMin(arts) + 1, Len(s)))

RefOverlap(eWords, tWords) ==
  LET both == {w \in eWords \cap tWords : Len(w) > 2}
      sizes == {Cardinality(eWords), Cardinality(tWords), 1}
  IN (Cardinality(both) * ConfUnit) \div SetMax(sizes)

referenceScore(x, y) ==
  IF x = <<>> \/ y = <<>> THEN 0
  ELSE IF Trim(ToLower(x)) = Trim(ToLower(y)) THEN ConfUnit
  ELSE IF RefStripArticle(Trim(ToLower(x))) = RefStripArticle(Trim(ToLower(y)))
       THEN (95 * ConfUnit) \div 100
  ELSE RefOverlap(RefWords(RefStripArticle(Trim(ToLower(x)))),
                  RefWords(RefStripArticle(Trim(ToLower(y)))))

P_Heat == <<"H","e","a","t">>
P_HeatYear == <<"H","e","a","t"," ","(","1","9","9","5",")">>
P_1995 == <<"1","9","9","5">>
P_MoviesLikeHeat == <<"M","o","v","i","e","s"," ","l","i","k","e"," ","H","e","a","t","?">>
P_FightScenes == <<"M","o","v","i","e","s"," ","w","i","t","h"," ","g","r","e","a","t"," ","f","i","g","h","t"," ","s","c","e","n","e","s"," ","i","n","c","l","u","d","i","n","g"," ","H","e","a","t">>
P_ScenesLike == <<"M","o","v","i","e","s"," ","l","i","k","e"," ","H","e","a","t"," ","s","c","e","n","e","s">>
P_LikeRonin1995 == <<"M","o","v","i","e","s"," ","l","i","k","e"," ","R","o","n","i","n"," ","(","1","9","9","5",")">>

PostBeginnings ==
  {<<"M","o","v","i","e","s"," ","l","i","k","e"," ">>,
   <<"M","o","v","i","e","s"," ","w","i","t","h"," ","g","r","e","a","t"," ","f","i","g","h","t"," ","s","c","e","n","e","s"," ","i","n","c","l","u","d","i","n","g"," ">>,
   <<"I","f"," ","y","o","u"," ","l","i","k","e","d"," ">>,
   <<"B","e","s","t"," ","m","o","v","i","e","s"," ","w","i","t","h"," ">>,
   <<"F","i","l","m","s"," ","s","i","m","i","l","a","r"," ","t","o"," ">>,
   <<"R","e","c","o","m","m","e","n","d"," ","m","e"," ","\"">>,
   <<"N","o","t","h","i","n","g"," ","l","i","k","e"," ">>,
   <<>>}
PostFilms == {P_Heat, <<"H","E","A","T">>, <<"R","o","n","i","n">>}
PostEnds ==
  {<<>>,
   <<"?">>,
   <<" ","(","1","9","9","5",")">>,
   <<" ","s","c","e","n","e","s">>,
   <<" ","r","e","c","o","m","m","e","n","d","a","t","i","o","n","s">>,
   <<"\""," ","p","l","e","a","s","e">>,
   <<" ","i","n"," ","o","l","d"," ","m","o","v","i","e","s">>,
   <<" ","m","o","m","e","n","t","s">>}
ScoredTitles == {b \o f \o e : b \in PostBeginnings, f \in PostFilms, e \in PostEnds}

InitRelevance ==
  /\ Constructed("complete", FALSE)
  /\ vin \in [postTitle : ScoredTitles,
               searchMovieTitle : {P_Heat, P_HeatYear},
               releaseYear : {NoText, P_1995}]
  /\ vret = NoCall
  /\ backend = "forum"
  /\ memo = [relevance |-> <<>>, admitted |-> <<>>, titles |-> <<>>, aiTitles |-> <<>>,
             aiBatch |-> <<>>]
  /\ NeverCalled
  /\ callsLeft = 0
  /\ faultsLeft = 0

\* a caller evaluates calculatePostRelevance(postTitle, searchMovieTitle,
\* releaseYear)
RelevanceCall ==
  /\ ~vret.done
  /\ \E r \in {calculatePostRelevance(vin.postTitle, vin.searchMovieTitle, vin.releaseYear)} :
       vret' = [done |-> TRUE, score |-> r]
  /\ UNCHANGED <<reddit, cache, aiParser, now, backend, memo, vin, harvestVars>>

NextRelevance == RelevanceCall

SpecRelevance == InitRelevance /\ [][NextRelevance]_vars

\* the target of the call in lower case, its trailing "(year)" taken off
TargetLower == ToLower(StripYearSuffix(vin.searchMovieTitle))

\* C16: the relevance filter rejects (score <= 0) every title that matches a
\* kill pattern, whatever positive signals the title has; "Movies with great
\* fight scenes including Heat" is rejected for "Heat", and "Movies like
\* Heat?" is accepted with a positive score
C16_KillPatternsReject ==
  vret.done =>
    /\ anyTest(killPatterns(TargetLower), ToLower(vin.postTitle)) => vret.score <= 0
    /\ vin.postTitle = P_FightScenes => vret.score <= 0
    /\ vin.postTitle = P_MoviesLikeHeat => vret.score > 0

\* a title with the phrase "movies like heat" that matches the kill pattern
\* heat.*scenes? was scored
C16_Witness ==
  /\ vret.done
  /\ vin.postTitle = P_ScenesLike
  /\ vin.searchMovieTitle = P_Heat
  /\ vret.score = Sentinel

\* C17: the relevance filter returns the negative sentinel for every title
\* that does not contain the target (letter case ignored, the trailing
\* "(year)" of the target stripped), also when the title has the release
\* year and a context word, and it changes no state of the engine
C17_SentinelWithoutTarget ==
  /\ vret.done /\ ~Includes(ToLower(vin.postTitle), TargetLower) => vret.score = Sentinel
  /\ cache = EmptyCache /\ reddit = "client" /\ aiParser = "off" /\ now = 0 /\ ~ret.done

\* a title with "like" and the release year, without the target, was scored
\* for the target "Heat (1995)"
C17_Witness ==
  /\ vret.done
  /\ vin.postTitle = P_LikeRonin1995
  /\ vin.searchMovieTitle = P_HeatYear
  /\ vin.releaseYear = P_1995
  /\ vret.score = Sentinel

(***************************************************************************)
(* Direct calls of the genre filter, on pairs of short genre lists         *)
(***************************************************************************)
\* the longest genre list has this many genres
MaxGenres == 2

GenreIds == {18, 27, 878}

\* a missing list, and the lists of up to MaxGenres genres
GenreLists ==
  {NoGenres} \cup UNION {[1..n -> GenreIds] : n \in 0..MaxGenres}

InitGenres ==
  /\ Constructed("complete", FALSE)
  /\ vin \in [genres1 : GenreLists, genres2 : GenreLists]
  /\ vret = NoCall
  /\ backend = "forum"
  /\ memo = [relevance |-> <<>>, admitted |-> <<>>, titles |-> <<>>, aiTitles |-> <<>>,
             aiBatch |-> <<>>]
  /\ NeverCalled
  /\ callsLeft = 0
  /\ faultsLeft = 0

\* a caller evaluates isGenreSimilar(genres1, genres2), and the same with the
\* arguments swapped
GenreCall ==
  /\ ~vret.done
  /\ vret' = [done |-> TRUE,
              similar |-> isGenreSimilar(vin.genres1, vin.genres2),
              swapped |-> isGenreSimilar(vin.genres2, vin.genres1)]
  /\ UNCHANGED <<reddit, cache, aiParser, now, backend, memo, vin, harvestVars>>

NextGenres == GenreCall

SpecGenres == InitGenres /\ [][NextGenres]_vars

\* the list is missing or has no genre
Undetermined(genres) == genres = NoGenres \/ genres = <<>>

\* C18: isSimilar(A, B) is true whenever either list is missing or empty,
\* otherwise it is true exactly when the two lists share a genre id; and it
\* is symmetric
C18_GenreFilter ==
  vret.done =>
    /\ vret.similar =
         \/ Undetermined(vin.genres1)
         \/ Undetermined(vin.genres2)
         \/ {vin.genres1[k] : k \in DOMAIN vin.genres1}
              \cap {vin.genres2[k] : k \in DOMAIN vin.genres2} # {}
    /\ vret.similar = vret.swapped

\* the filter was called with a missing list and a list of one genre
C18_Witness ==
  /\ vret.done
  /\ vin.genres1 = NoGenres
  /\ vin.genres2 = <<27>>
  /\ vret.similar

(***************************************************************************)
(* Direct calls of the aggregator: merges into one Map                     *)
(***************************************************************************)
\* a Map receives up to this many merges
MaxMerges == 4

\* the matches of two films, with the votes 7.0 and 8.4
MergeMatches ==
  {CatalogResult(1, T_Contact, NoText, TRUE, 70, NoText, NoText),
   CatalogResult(2, T_Arrival, NoText, TRUE, 84, NoText, NoText)}

\* the confidences 0.9 and 0
MergeConfidences == {(9 * ConfUnit) \div 10, 0}

MergeMovies ==
  {[extractedTitle |-> m.title, tmdbMatch |-> m, confidence |-> c] :
     m \in MergeMatches, c \in MergeConfidences}

MergeContexts ==
  {Context("post", "movies", 12, "/r/movies/1"),
   Context("comment", "movies", 5, "/r/movies/3"),
   Context("comment", "MovieSuggestions", 3, "/r/MovieSuggestions/2")}

\* vin is the list of the merges made so far
InitMerge ==
  /\ Constructed("complete", FALSE)
  /\ vin = <<>>
  /\ vret = NoCall
  /\ backend = "forum"
  /\ memo = [relevance |-> <<>>, admitted |-> <<>>, titles |-> <<>>, aiTitles |-> <<>>,
             aiBatch |-> <<>>]
  /\ NeverCalled
  /\ callsLeft = 0
  /\ faultsLeft = 0

\* a caller evaluates addOrUpdateRecommendation(recommendations, movie, context)
MergeCall ==
  /\ Len(vin) < MaxMerges
  /\ \E movie \in MergeMovies, context \in MergeContexts :
       /\ recommendations' = addOrUpdateRecommendation(recommendations, movie, context)
       /\ vin' = Append(vin, [id |-> movie.tmdbMatch.id, confidence |-> movie.confidence,
                              context |-> context])
  /\ UNCHANGED <<reddit, cache, aiParser, now, backend, memo, vret, call, pc,
                 originalGenres, releaseYear, allResults, subIdx, i, shouldStop,
                 postsProcessed, tasks, postIdx, ret, faultsLeft, faulted, issued,
                 callsLeft>>

NextMerge == MergeCall

SpecMerge == InitMerge /\ [][NextMerge]_vars

\* the merges made for an id, and the sum of their confidences
MergesFor(id) == {k \in 1..Len(vin) : vin[k].id = id}
RECURSIVE SumConfidence(_)
SumConfidence(ks) ==
  IF ks = {} THEN 0
  ELSE LET k == CHOOSE x \in ks : TRUE
       IN vin[k].confidence + SumConfidence(ks \ {k})

\* C19: after any sequence of merges into one Map, every id merged has one
\* record, whose mentions is the number of merges made for the id (two for
\* the same id and context merged twice), whose totalConfidence is the sum of
\* the confidences merged and whose avgConfidence is totalConfidence over
\* mentions (rounded down to the unit of the confidences)
C19_AggregateCounts ==
  /\ \A k \in 1..Len(vin) : \E n \in 1..Len(recommendations) : recommendations[n].id = vin[k].id
  /\ \A n \in 1..Len(recommendations) :
       /\ recommendations[n].mentions = Cardinality(MergesFor(recommendations[n].id))
       /\ recommendations[n].totalConfidence = SumConfidence(MergesFor(recommendations[n].id))
       /\ recommendations[n].avgConfidence * recommendations[n].mentions
            <= recommendations[n].totalConfidence
       /\ (recommendations[n].avgConfidence + 1) * recommendations[n].mentions
            > recommendations[n].totalConfidence

\* the same film was merged twice with the confidence 0.9 and the same
\* context: mentions is 2 and avgConfidence 0.9
C19_Witness ==
  /\ Len(vin) = 2
  /\ vin[1] = vin[2]
  /\ vin[1].id = 1
  /\ vin[1].confidence = (9 * ConfUnit) \div 10
  /\ Len(recommendations) = 1
  /\ recommendations[1].mentions = 2
  /\ recommendations[1].totalConfidence = 2 * ((9 * ConfUnit) \div 10)
  /\ recommendations[1].avgConfidence = (9 * ConfUnit) \div 10

\* finalScore is what the current mentions, totalConfidence and vote_average
\* of the record give, rounded down to the unit of the scores
FreshScore(rec) ==
  /\ rec.mentions >= 1
  /\ rec.finalScore * rec.mentions
       <= rec.totalConfidence * LnMilli(rec.mentions + 1) * rec.vote_average
  /\ (rec.finalScore + 1) * rec.mentions
       > rec.totalConfidence * LnMilli(rec.mentions + 1) * rec.vote_average

\* C20: finalScore is never stale: after every merge, and in every state a
\* harvest can observe, the finalScore of every record of the Map and of
\* every record returned is avgConfidence * ln(mentions + 1) *
\* (vote_average / 10) of the current values of the record, avgConfidence
\* being totalConfidence / mentions
C20_FinalScoreFresh ==
  /\ \A n \in 1..Len(recommendations) : FreshScore(recommendations[n])
  /\ ret.done /\ ~ret.threw => \A n \in 1..Len(ret.list) : FreshScore(ret.list[n])

\* a harvest returned a film mentioned more than once, with a positive score
C20_Witness ==
  /\ ret.done
  /\ ~ret.threw
  /\ \E n \in 1..Len(ret.list) :
       /\ ret.list[n].mentions >= 2
       /\ ret.list[n].finalScore > 0
       /\ FreshScore(ret.list[n])

\* the merges made for an id, in the order they were made
MergedFor(id) == SelectSeq(vin, LAMBDA e : e.id = id)

\* the list holds no element twice
Distinct(list) == \A a, b \in 1..Len(list) : list[a] = list[b] => a = b

\* what C21 says of one record, merged being the merges made for its id
ListsOf(rec, merged) ==
  /\ Len(rec.contexts) >= 1
  /\ Len(rec.contexts) <= 3
  /\ Len(rec.contexts) = (IF rec.mentions < 3 THEN rec.mentions ELSE 3)
  /\ \A k \in 1..Len(rec.contexts) : rec.contexts[k] = merged[k].context
  /\ Distinct(rec.redditUrls)
  /\ Range(rec.redditUrls) = {merged[k].context.url : k \in 1..Len(merged)}
  /\ Distinct(rec.subreddits)
  /\ Range(rec.subreddits) = {merged[k].context.subreddit : k \in 1..Len(merged)}
  /\ Len(rec.sources) = rec.mentions
  /\ Len(rec.sources) = Len(merged)
  /\ \A k \in 1..Len(rec.sources) : rec.sources[k] = merged[k].context.source

\* C21: after any sequence of merges every record has between 1 and 3
\* contexts, which are the first min(mentions, 3) contexts merged for its id;
\* redditUrls holds each distinct url once, subreddits each distinct
\* community once, and sources has `mentions` entries in the order of the
\* merges
C21_BoundedLists ==
  \A n \in 1..Len(recommendations) :
    ListsOf(recommendations[n], MergedFor(recommendations[n].id))

\* a film was merged four times, from two urls of one community: the record
\* keeps three contexts, two urls, one community and four sources
C21_Witness ==
  /\ Len(vin) = 4
  /\ Len(recommendations) = 1
  /\ recommendations[1].mentions = 4
  /\ Len(recommendations[1].contexts) = 3
  /\ Len(recommendations[1].redditUrls) = 2
  /\ Len(recommendations[1].subreddits) = 1
  /\ recommendations[1].sources = <<"post", "comment", "comment", "post">>

(***************************************************************************)
(* The same merges made in two orders                                      *)
(***************************************************************************)
\* a list of merges has up to this many (movie, context) pairs
MaxPairs == 3

\* two films; the first was read from the catalog twice, a day apart, with
\* the votes 7.0 and 7.4 (a validated match is cached under the title it was
\* asked for, so two titles of one film can carry two readings)
OrderMatches ==
  {CatalogResult(1, T_Contact, NoText, TRUE, 70, NoText, NoText),
   CatalogResult(1, T_Contact, NoText, TRUE, 74, NoText, NoText),
   CatalogResult(2, T_Arrival, NoText, TRUE, 84, NoText, NoText)}

OrderPairs ==
  {[movie |-> [extractedTitle |-> m.title, tmdbMatch |-> m, confidence |-> c],
    context |-> x] :
     m \in OrderMatches, c \in MergeConfidences,
     x \in {Context("post", "movies", 12, "/r/movies/1"),
            Context("comment", "MovieSuggestions", 3, "/r/MovieSuggestions/2")}}

\* the Map after addOrUpdateRecommendation was called for every pair of the
\* list, in the order of the list, on the Map map
RECURSIVE mergeAll(_, _)
mergeAll(map, pairs) ==
  IF pairs = <<>> THEN map
  ELSE mergeAll(addOrUpdateRecommendation(map, Head(pairs).movie, Head(pairs).context),
                Tail(pairs))

InitOrder ==
  /\ Constructed("complete", FALSE)
  /\ vin \in UNION {[1..n -> OrderPairs] : n \in 0..MaxPairs}
  /\ vret = NoCall
  /\ backend = "forum"
  /\ memo = [relevance |-> <<>>, admitted |-> <<>>, titles |-> <<>>, aiTitles |-> <<>>,
             aiBatch |-> <<>>]
  /\ NeverCalled
  /\ callsLeft = 0
  /\ faultsLeft = 0

\* the pairs of vin are merged into an empty Map in the order of vin, and
\* into another empty Map in another order
OrderCall ==
  /\ ~vret.done
  /\ \E perm \in Permutations(1..Len(vin)) :
       vret' = [done |-> TRUE,
                inOrder |-> mergeAll(<<>>, vin),
                permuted |-> mergeAll(<<>>, [k \in 1..Len(vin) |-> vin[perm[k]]])]
  /\ UNCHANGED <<reddit, cache, aiParser, now, backend, memo, vin, harvestVars>>

NextOrder == OrderCall

SpecOrder == InitOrder /\ [][NextOrder]_vars

\* the record of the id in a Map that has it
RecordOf(map, id) == map[CHOOSE n \in 1..Len(map) : map[n].id = id]

\* C22: merging the same multiset of (match, context) pairs in any two
\* orders yields Maps with the same key set and, for each catalog id, the
\* same mentions, totalConfidence, avgConfidence, finalScore, set of
\* subreddits and set of urls
C22_MergeCommutes ==
  vret.done =>
    /\ IdsOf(vret.inOrder) = IdsOf(vret.permuted)
    /\ \A id \in IdsOf(vret.inOrder) :
         /\ RecordOf(vret.inOrder, id).mentions = RecordOf(vret.permuted, id).mentions
         /\ RecordOf(vret.inOrder, id).totalConfidence
              = RecordOf(vret.permuted, id).totalConfidence
         /\ RecordOf(vret.inOrder, id).avgConfidence
              = RecordOf(vret.permuted, id).avgConfidence
         /\ RecordOf(vret.inOrder, id).finalScore = RecordOf(vret.permuted, id).finalScore
         /\ Range(RecordOf(vret.inOrder, id).subreddits)
              = Range(RecordOf(vret.permuted, id).subreddits)
         /\ Range(RecordOf(vret.inOrder, id).redditUrls)
              = Range(RecordOf(vret.permuted, id).redditUrls)

(***************************************************************************)
(* Direct calls of extractRecommendationsFromPost, on the comment bodies   *)
(* of the stub platform                                                    *)
(***************************************************************************)
\* the extractor is called up to this many times on a text
MaxExtracts == 2

InitExtract ==
  /\ memo = TextTables
  /\ \E credentials \in Credentials, groqKey \in BOOLEAN : Constructed(credentials, groqKey)
  /\ vin \in [text : Bodies \cup {<<>>}, contentType : ContentType]
  /\ vret = NoCall
  /\ backend = "forum"
  /\ NeverCalled
  /\ callsLeft = 0
  /\ faultsLeft = 0

\* a caller evaluates extractRecommendationsFromPost(text, T_Arrival,
\* contentType); the AI backend answers, answers nothing or fails, and the
\* catalog queries of bad fail.  vret keeps the movies of the call before
ExtractCall ==
  /\ vret.done => vret.calls < MaxExtracts
  /\ \E outcome \in AiOutcomes, bad \in BadSets :
      \E r \in {extractRecommendationsFromPost(cache, now, vin.text, T_Arrival,
                                                vin.contentType, aiAvailable, outcome, bad)} :
        /\ bad \subseteq r.failed
        /\ ~r.aiCalled => outcome = "answer"
        /\ cache' = r.cache
        /\ vret' = [done |-> TRUE,
                    calls |-> IF vret.done THEN vret.calls + 1 ELSE 1,
                    outcome |-> outcome,
                    aiTitles |-> IF r.aiCalled THEN Len(aiTitlesOf(vin.text, outcome)) ELSE 0,
                    movies |-> r.movies,
                    strategy |-> r.strategy,
                    aiCalled |-> r.aiCalled,
                    validatedByAi |-> r.validatedByAi,
                    queried |-> r.queried,
                    before |-> IF vret.done
                               THEN [movies |-> vret.movies, strategy |-> vret.strategy]
                               ELSE [movies |-> <<>>, strategy |-> "none"]]
  /\ UNCHANGED <<reddit, aiParser, now, backend, memo, vin, harvestVars>>

NextExtract == ExtractCall

SpecExtract == InitExtract /\ [][NextExtract]_vars

\* C23: on a text, extract runs the pattern strategy whenever the AI
\* strategy is unavailable, returns no titles, fails, or returns titles of
\* which none validates; it returns the matches of the AI strategy, without
\* running the pattern strategy, only when at least one AI title validated;
\* and with the AI backend absent the call makes no AI call at all
C23_PatternFallback ==
  vret.done /\ vin.text # <<>> =>
    /\ vret.strategy \in {"ai", "pattern"}
    /\ ~aiAvailable => vret.strategy = "pattern" /\ ~vret.aiCalled
    /\ aiAvailable => vret.aiCalled
    /\ vret.outcome \in {"nothing", "error"} => vret.strategy = "pattern"
    /\ vret.aiTitles = 0 => vret.strategy = "pattern"
    /\ vret.strategy = "pattern" <=> vret.validatedByAi = 0
    /\ vret.strategy = "ai" =>
         /\ aiAvailable
         /\ vret.outcome = "answer"
         /\ vret.aiTitles >= 1
         /\ Len(vret.movies) = vret.validatedByAi
         /\ Len(vret.movies) >= 1

\* the AI backend named a title that the catalog of shows does not hold: the
\* pattern strategy ran and validated a film
C23_Witness ==
  /\ vret.done
  /\ aiAvailable
  /\ vret.outcome = "answer"
  /\ vret.aiTitles >= 1
  /\ vret.strategy = "pattern"
  /\ Len(vret.movies) >= 1

\* C24: the pattern strategy run twice on the same text, original title and
\* content type, the catalog unchanged, yields the same validated matches in
\* the same order, whether the second run is answered from the cache the
\* first run filled or not (the candidates are a function of the text and
\* the original title alone)
C24_ExtractorIdempotent ==
  vret.done /\ vret.calls = 2 /\ vret.strategy = "pattern"
    /\ vret.before.strategy = "pattern" => vret.movies = vret.before.movies

\* the second run of the pattern strategy returned a film without a query
\* to the catalog: the first run had filled the cache
C24_Witness ==
  /\ vret.done
  /\ vret.calls = 2
  /\ vret.strategy = "pattern"
  /\ vret.before.strategy = "pattern"
  /\ Len(vret.movies) >= 1
  /\ vret.queried = {}
  /\ cache.defined
  /\ DOMAIN cache.entries # {}

(***************************************************************************)
(* Properties of the batch loop of a quick harvest                         *)
(***************************************************************************)
\* C27: during a quick harvest the shared Map never holds more than `limit`
\* records, under every interleaving of the members of a batch (each checks
\* the size, then awaits a validation or a genre lookup, then merges)
C27_MapWithinLimit ==
  call.kind = "quick" => Len(recommendations) <= call.limit

\* C25: hard stop.  Once the Map of a quick harvest holds `limit` records,
\* and hence once the shared stop flag is set, no further batch of posts is
\* started and no member starts a further batch of comments; the members in
\* flight run to their end, and the harvest returns a list
C25_HardStop ==
  [][call.kind = "quick" =>
       /\ shouldStop => Len(recommendations) >= call.limit
       /\ Len(recommendations) >= call.limit => ~(pc = "q_batch" /\ pc' = "q_wait")
       /\ \A k \in DOMAIN tasks' :
            (tasks'[k].pc = "extract" /\ (k \notin DOMAIN tasks \/ tasks[k] # tasks'[k]))
              => Len(recommendations') < call'.limit
       /\ Len(recommendations) >= call.limit /\ ret'.done =>
            /\ ~ret'.threw
            /\ \A k \in DOMAIN tasks : tasks[k].pc = "done"
            /\ Len(ret'.list) = call.limit
    ]_vars

\* a quick harvest stopped at its limit with posts left: the flag was set by
\* a member, and the second batch was never started
C25_Witness ==
  /\ Returned("quick")
  /\ ret.limit >= 1
  /\ Len(ret.list) = ret.limit
  /\ "fetch" \in ret.issued
  /\ ret.faulted = {}

(***************************************************************************)
(* The posts a harvest reads                                               *)
(***************************************************************************)
\* the posts of the platform a record was merged from: those whose permalink
\* is among the urls of the record
PostsOfRecord(rec) ==
  {p \in AllPosts : \E n \in 1..Len(rec.redditUrls) : rec.redditUrls[n] = p.permalink}

\* C28: in a quick and in a comprehensive harvest no match is merged from a
\* post whose relevance score is not positive: every record of the Map comes
\* from posts that score above 0 for the harvested title
C28_OnlyRelevantPosts ==
  call.kind \in {"quick", "comprehensive"} =>
    \A n \in 1..Len(recommendations) :
      \A p \in PostsOfRecord(recommendations[n]) :
        postRelevance(p.title, call.movieTitle, releaseYear) > 0

\* the posts of the batch the loop head is about to start
BatchPosts ==
  LET last == IF i + batchSize < Len(allResults) THEN i + batchSize ELSE Len(allResults)
  IN {allResults[n] : n \in (i + 1)..last}

BatchStarts == call.kind = "quick" /\ pc = "q_batch" /\ pc' = "q_wait"

\* the member of the new batch that stands at the fetch of the comments of p
FetchStarted(p) ==
  \E k \in DOMAIN tasks' : tasks'[k].post = p /\ tasks'[k].pc = "fetch"

BatchGaveNothing(task) ==
  /\ "ai-batch" \in task.asked
  /\ task.titles = <<>>

\* C30: in a quick harvest a member whose AI batch extraction gave nothing
\* extracts the comments with the pattern strategy and makes no AI call per
\* comment; a member whose AI batch extraction returned titles runs no
\* extraction per comment, neither AI nor pattern
C30_BatchThenPatternOnly ==
  call.kind = "quick" =>
    \A k \in DOMAIN tasks :
      /\ BatchGaveNothing(tasks[k]) => "ai" \notin tasks[k].asked
      /\ ("ai-batch" \in tasks[k].asked /\ ~BatchGaveNothing(tasks[k]))
           => tasks[k].asked = {"ai-batch"}

(***************************************************************************)
(* The soft stop of a quick harvest                                        *)
(***************************************************************************)
\* the posts of the search results the loop has not reached
PostsLeft == {allResults[n] : n \in (i + 1)..Len(allResults)}

\* the minimum is met below the limit, posts are left, and none of them
\* scores above 0
SoftStopDue ==
  /\ call.kind = "quick"
  /\ pc = "q_batch"
  /\ Len(recommendations) >= minRecommendations
  /\ Len(recommendations) < call.limit
  /\ PostsLeft # {}
  /\ \A p \in PostsLeft : postRelevance(p.title, call.movieTitle, releaseYear) <= 0

\* C26: soft stop.  A quick harvest that has met the minimum of 8 records
\* below its limit, with no relevant post left among the unprocessed ones,
\* leaves the batch loop instead of starting the next batch
C26_SoftStop ==
  [][SoftStopDue => pc' # "q_wait"]_vars

\* the stop flag is raised only with the Map at the limit, so that the test
\* of lines 505 and 756 never decides
SoftStopDead ==
  call.kind = "quick" /\ shouldStop => Len(recommendations) >= call.limit

(***************************************************************************)
(* The catalog an extraction validates against                             *)
(***************************************************************************)
\* the key of a validation of the content type: tmdb_movie_... or tmdb_tv_...
KeyOfType(key, contentType) ==
  LET prefix == K_tmdb_ \o CtText(contentType) \o <<"_">>
  IN Len(key) >= Len(prefix) /\ Sub(key, 1, Len(prefix)) = prefix

\* an entry of the catalog of the content type: a show has a name and no
\* title, a movie a title and no name
EntryOfType(entry, contentType) ==
  IF contentType = "tv" THEN entry.title = NoText /\ entry.name # NoText
  ELSE entry.title # NoText /\ entry.name = NoText

\* C31: every validation of extractRecommendationsFromPost(text,
\* originalTitle, contentType) queries the catalog of contentType under a
\* cache key of contentType, in the pattern strategy as in the AI strategy:
\* after calls on a fresh engine the cache holds only keys of that type and
\* the movies returned are entries of that catalog
C31_CatalogOfContentType ==
  vret.done =>
    /\ cache.defined => \A key \in DOMAIN cache.entries : KeyOfType(key, vin.contentType)
    /\ \A n \in 1..Len(vret.movies) : EntryOfType(vret.movies[n].tmdbMatch, vin.contentType)

(***************************************************************************)
(* The three levels of batches of a quick harvest: the posts of a batch,   *)
(* the comment extractions of a post, the catalog validations of a pattern *)
(* extraction.  Only the shape of the input matters here: vin is the list  *)
(* of posts found, a post being the list of its comments and a comment the *)
(* number of candidate titles the filters leave; every post is relevant,   *)
(* the limit is out of reach and the AI parser is absent.  vret holds the  *)
(* position of the loops.                                                  *)
(***************************************************************************)
\* line 254: const batchSize = 5 of the pattern strategy
validationBatchSize == 5

\* the shapes followed: no post; a post without comment; four posts of one
\* comment; a post of six comments; a comment of 22 titles; two posts, one
\* with a comment of six titles and a comment of none
CapsInputs ==
  { <<>>,
    << <<>> >>,
    << <<1>>, <<1>>, <<1>>, <<1>> >>,
    << <<1, 1, 1, 1, 1, 1>> >>,
    << <<22>> >>,
    << <<6, 0>>, <<2>> >> }

\* filtered.slice(0, 20).length
sliceCount_NoCap(n) == n

sliceCount(n) == IF n < MaxTitlesToProcess THEN n ELSE MaxTitlesToProcess

\* titlesToProcess.slice(b, b + batchSize).length, b counted from 1
validationsFrom(n, b) ==
  LET rest == sliceCount(n) - b + 1
  IN IF rest < validationBatchSize THEN rest ELSE validationBatchSize

\* lines 253-265: extractRecommendationsFromPost on a comment of n titles
\* runs to the await of its first batch of validations
startExtraction(comment, n) ==
  IF sliceCount(n) = 0
  THEN [comment |-> comment, n |-> n, b |-> 1, inflight |-> 0, total |-> 0, pc |-> "done"]
  ELSE [comment |-> comment, n |-> n, b |-> 1, inflight |-> validationsFrom(n, 1),
        total |-> validationsFrom(n, 1), pc |-> "batch"]

\* lines 674-692: the comment batch that starts at j is sliced and its
\* extractions are started together
startComments(member, comments, j) ==
  LET top == Slice(comments, MaxTopComments)
      last == IF j + commentBatchSize - 1 < Len(top) THEN j + commentBatchSize - 1
              ELSE Len(top)
  IN IF j > Len(top)
     THEN [member EXCEPT !.pc = "done", !.exts = <<>>]
     ELSE [member EXCEPT !.pc = "comments", !.j = j,
                         !.exts = [k \in 1..(last - j + 1) |->
                                     startExtraction(j + k - 1, top[j + k - 1])]]

\* lines 519-583: a member runs to the fetch of the comments
startMember(post, comments) ==
  [post |-> post, pc |-> IF Len(comments) > 0 THEN "fetch" ELSE "done", j |-> 0,
   exts |-> <<>>]

InitCaps ==
  /\ Constructed("complete", FALSE)
  /\ vin \in CapsInputs
  /\ vret = [done |-> FALSE, i |-> 0, phase |-> "head", members |-> <<>>, started |-> {}]
  /\ backend = "forum"
  /\ memo = [relevance |-> <<>>, admitted |-> <<>>, titles |-> <<>>, aiTitles |-> <<>>,
             aiBatch |-> <<>>]
  /\ NeverCalled
  /\ callsLeft = 0
  /\ faultsLeft = 0

CapsUnchanged == UNCHANGED <<reddit, cache, aiParser, now, backend, memo, vin, harvestVars>>

\* lines 499-518: the head of the loop over the post batches, i counted
\* from 0; the members of the batch start together.  started collects the
\* positions of the posts a member was started for
CapsHead ==
  LET bound == IF Len(vin) < maxPostsToProcess THEN Len(vin) ELSE maxPostsToProcess
      last == IF vret.i + batchSize < Len(vin) THEN vret.i + batchSize ELSE Len(vin)
  IN /\ vret.phase = "head"
     /\ vret' = IF vret.i >= bound
                THEN [vret EXCEPT !.phase = "returned", !.done = TRUE, !.members = <<>>]
                ELSE [vret EXCEPT !.phase = "wait",
                                  !.members = [k \in 1..(last - vret.i) |->
                                                 startMember(vret.i + k, vin[vret.i + k])],
                                  !.started = @ \cup ((vret.i + 1)..last)]
     /\ CapsUnchanged

\* lines 583-692: the fetch of the comments of a member resolves, and the
\* first comment batch starts
CapsFetch(m) ==
  /\ vret.phase = "wait"
  /\ vret.members[m].pc = "fetch"
  /\ vret' = [vret EXCEPT !.members[m] = startComments(@, vin[@.post], 1)]
  /\ CapsUnchanged

\* lines 261-285: one validation in flight resolves; with the last one of
\* the batch Promise.all resolves and the sleep of line 291 starts
CapsValidated(m, e) ==
  /\ vret.phase = "wait"
  /\ vret.members[m].pc = "comments"
  /\ vret.members[m].exts[e].pc = "batch"
  /\ vret' = [vret EXCEPT !.members[m].exts[e] =
                [@ EXCEPT !.inflight = @ - 1,
                          !.pc = IF vret.members[m].exts[e].inflight = 1 THEN "sleep"
                                 ELSE "batch"]]
  /\ CapsUnchanged

\* lines 258-292: the sleep is over; the next batch of validations starts,
\* or the extraction returns
CapsNextValidations(m, e) ==
  LET x == vret.members[m].exts[e]
      b == x.b + validationBatchSize
  IN /\ vret.phase = "wait"
     /\ vret.members[m].pc = "comments"
     /\ x.pc = "sleep"
     /\ vret' = [vret EXCEPT !.members[m].exts[e] =
                   IF b > sliceCount(x.n) THEN [x EXCEPT !.pc = "done"]
                   ELSE [x EXCEPT !.b = b, !.inflight = validationsFrom(x.n, b),
                                  !.total = @ + validationsFrom(x.n, b), !.pc = "batch"]]
     /\ CapsUnchanged

\* lines 684-742: the extractions of the comment batch have all resolved,
\* their movies are merged, and the next comment batch starts
CapsMerge(m) ==
  LET member == vret.members[m]
  IN /\ vret.phase = "wait"
     /\ member.pc = "comments"
     /\ \A e \in DOMAIN member.exts : member.exts[e].pc = "done"
     /\ vret' = [vret EXCEPT !.members[m] =
                   startComments(member, vin[member.post], member.j + commentBatchSize)]
     /\ CapsUnchanged

\* lines 746-760: Promise.all of the members resolves, and the sleep between
\* the batches starts
CapsJoin ==
  /\ vret.phase = "wait"
  /\ \A m \in DOMAIN vret.members : vret.members[m].pc = "done"
  /\ vret' = [vret EXCEPT !.phase = "sleep"]
  /\ CapsUnchanged

\* line 499: the sleep is over, i += batchSize
CapsSleep ==
  /\ vret.phase = "sleep"
  /\ vret' = [vret EXCEPT !.phase = "head", !.i = @ + batchSize, !.members = <<>>]
  /\ CapsUnchanged

NextCaps ==
  \/ CapsHead
  \/ \E m \in DOMAIN vret.members : CapsFetch(m)
  \/ \E m \in DOMAIN vret.members : \E e \in DOMAIN vret.members[m].exts : CapsValidated(m, e)
  \/ \E m \in DOMAIN vret.members : \E e \in DOMAIN vret.members[m].exts :
       CapsNextValidations(m, e)
  \/ \E m \in DOMAIN vret.members : CapsMerge(m)
  \/ CapsJoin
  \/ CapsSleep

SpecCaps == InitCaps /\ [][NextCaps]_vars

\* the members, and the extractions of a member, that have not returned
MembersInFlight(r) == {m \in DOMAIN r.members : r.members[m].pc # "done"}
ExtractionsInFlight(member) == {e \in DOMAIN member.exts : member.exts[e].pc # "done"}

\* C32: in-flight work is capped at every level: at most 3 posts at once,
\* at most 5 comment extractions of one post, at most 5 catalog validations
\* of one pattern extraction and at most 20 in its whole run; and a batch of
\* a level starts only when the batch before it at that level is complete
C32_InFlightCapped ==
  [][/\ Cardinality(MembersInFlight(vret')) <= batchSize
     /\ \A m \in DOMAIN vret'.members :
          /\ Cardinality(ExtractionsInFlight(vret'.members[m])) <= commentBatchSize
          /\ \A e \in DOMAIN vret'.members[m].exts :
               /\ vret'.members[m].exts[e].inflight <= validationBatchSize
               /\ vret'.members[m].exts[e].total <= MaxTitlesToProcess
     /\ vret'.i # vret.i => MembersInFlight(vret) = {}
     /\ \A m \in DOMAIN vret.members \cap DOMAIN vret'.members :
          /\ (vret'.members[m].post = vret.members[m].post
                /\ vret'.members[m].j # vret.members[m].j)
               => ExtractionsInFlight(vret.members[m]) = {}
          /\ \A e \in DOMAIN vret.members[m].exts \cap DOMAIN vret'.members[m].exts :
               (vret'.members[m].exts[e].comment = vret.members[m].exts[e].comment
                  /\ vret'.members[m].exts[e].b # vret.members[m].exts[e].b)
                 => vret.members[m].exts[e].inflight = 0
    ]_vars

\* the extraction of a comment of 22 titles has returned after four batches
\* of five validations: 20 in all
C32_Witness ==
  /\ vin = << <<22>> >>
  /\ \E m \in DOMAIN vret.members :
       \E e \in DOMAIN vret.members[m].exts :
         /\ vret.members[m].exts[e].pc = "done"
         /\ vret.members[m].exts[e].total = MaxTitlesToProcess
         /\ vret.members[m].exts[e].b = MaxTitlesToProcess - validationBatchSize + 1

(***************************************************************************)
(* The pauses of a quick harvest                                           *)
(***************************************************************************)
\* a community search of a quick harvest resolves or fails, and is not the
\* last one
SearchDoneWithMoreToCome ==
  /\ call.kind = "quick"
  /\ pc = "q_search"
  /\ call' = call
  /\ subIdx' = subIdx + 1
  /\ subIdx < Len(quickSubreddits(call.contentType))

\* C33: rate limiting.  Between two consecutive community searches of a
\* quick harvest a pause is taken, also when the earlier search failed, and
\* between the end of a post batch and the start of the next one a pause is
\* taken
C33_PausesTaken ==
  [][/\ SearchDoneWithMoreToCome => pc' = "q_pause"
     /\ (call.kind = "quick" /\ pc = "q_wait" /\ pc' # "q_wait" /\ call' = call)
          => pc' = "q_sleep"
     /\ (call.kind = "quick" /\ pc' = "q_batch" /\ i' > 0) => pc \in {"q_sleep", "q_batch"}
    ]_vars

\* the part on the post batches alone
PauseBetweenBatches ==
  [][/\ (call.kind = "quick" /\ pc = "q_wait" /\ pc' # "q_wait" /\ call' = call)
          => pc' = "q_sleep"
     /\ (call.kind = "quick" /\ pc' = "q_batch" /\ i' > 0) => pc \in {"q_sleep", "q_batch"}
     /\ (SearchDoneWithMoreToCome /\ faulted' = faulted) => pc' = "q_pause"
    ]_vars

(***************************************************************************)
(* Genres that cannot be determined                                        *)
(***************************************************************************)
\* the mentions of the entry id in the Map, 0 without a record
MentionsOf(map, id) ==
  IF \E n \in 1..Len(map) : map[n].id = id
  THEN map[CHOOSE n \in 1..Len(map) : map[n].id = id].mentions
  ELSE 0

\* the target title has been looked up: the first step of a quick harvest
Resolved == call.kind = "quick" /\ pc = "q_resolve" /\ pc' = "q_search"

\* the genre lookup of the candidate of member k resolves in this step
GenreLookupOf(k) ==
  /\ call.kind = "quick"
  /\ k \in DOMAIN tasks'
  /\ tasks[k].pc \in {"genres", "aigenres"}
  /\ tasks'[k] # tasks[k]

CandidateOf(k) ==
  IF tasks[k].pc = "aigenres" THEN tasks[k].matched
  ELSE tasks[k].results[tasks[k].idx][tasks[k].m]

MergedIn(k) ==
  MentionsOf(recommendations', CandidateOf(k).tmdbMatch.id)
    = MentionsOf(recommendations, CandidateOf(k).tmdbMatch.id) + 1

Disjoint(genres1, genres2) == Range(genres1) \cap Range(genres2) = {}

\* the candidates: merged when their genre lookup fails or gives no genre,
\* skipped only when both genre lists are non-empty and disjoint
CandidatesNeverBlocked ==
  \A k \in DOMAIN tasks :
    GenreLookupOf(k) =>
      LET known == genresOf(CandidateOf(k).tmdbMatch.id, call.contentType)
          failed == faultsLeft' < faultsLeft
      IN /\ (failed \/ known = <<>>) => MergedIn(k)
         /\ ~MergedIn(k) => /\ recommendations' = recommendations
                            /\ ~failed
                            /\ originalGenres # <<>> /\ known # <<>>
                            /\ Disjoint(originalGenres, known)

\* C34 as stated: when the validation of the target title or the lookup of
\* its genres fails, the quick harvest goes on with no genre filter and no
\* year hint; and the candidates are never blocked
C34_GenresNeverBlock ==
  [][/\ (Resolved /\ faultsLeft' < faultsLeft) =>
          /\ originalGenres' = <<>>
          /\ releaseYear' = NoText
     /\ CandidatesNeverBlocked
    ]_vars

\* C34 amended: a failed validation of the target title leaves no genre
\* filter and no year hint; a failed lookup of its genres leaves no genre
\* filter, and the year hint the validated entry gives; either way the
\* harvest goes on to the searches; and the candidates are never blocked
C34_GenresDegrade ==
  [][/\ (Resolved /\ "catalog" \in faulted') =>
          /\ originalGenres' = <<>>
          /\ releaseYear' = NoText
     /\ (Resolved /\ "genres" \in faulted') =>
          /\ originalGenres' = <<>>
          /\ releaseYear' = Y_2016
     /\ CandidatesNeverBlocked
    ]_vars

\* a candidate whose genre lookup failed stands in the Map of a harvest
\* that filters by genre
C34_Witness ==
  /\ call.kind = "quick"
  /\ originalGenres # <<>>
  /\ "genres" \in faulted
  /\ Len(recommendations) > 0

(***************************************************************************)
(* Answers of the AI backend read by the parser                            *)
(***************************************************************************)
\* the enumeration markers an answer line can start with: none, "1. ",
\* "10) ", "- ", "* "
AnswerMarkers ==
  { <<>>, <<"1", ".", " ">>, <<"1", "0", ")", " ">>, <<"-", " ">>, <<"*", " ">> }

\* what follows the marker: a title, a single letter, a number
T_Her == <<"H", "e", "r">>
T_Up == <<"U", "p">>
AnswerTitles == { T_Her, <<"a">>, <<"4", "2">> }

AnswerLine(marker, title) == [marker |-> marker, title |-> title]
AnswerLines == {AnswerLine(m, t) : m \in AnswerMarkers, t \in AnswerTitles}

\* answers of up to this many lines are followed, and one of LongAnswer lines
MaxAnswerLines == 2
LongAnswer == 16
LongMarkers == { <<>>, <<"-", " ">>, <<"*", " ">> }

\* the text of the answer: the lines joined by line breaks
RECURSIVE answerText(_, _)
answerText(lines, n) ==
  IF n > Len(lines) THEN <<>>
  ELSE lines[n].marker \o lines[n].title \o (IF n < Len(lines) THEN <<"\n">> ELSE <<>>)
       \o answerText(lines, n + 1)

InitAnswer ==
  /\ Constructed("complete", TRUE)
  /\ vin \in UNION {[1..n -> AnswerLines] : n \in 0..MaxAnswerLines}
             \cup {[n \in 1..LongAnswer |-> AnswerLine(m, T_Up)] : m \in LongMarkers}
  /\ vret = NoCall
  /\ backend = "forum"
  /\ memo = [relevance |-> <<>>, admitted |-> <<>>, titles |-> <<>>, aiTitles |-> <<>>,
             aiBatch |-> <<>>]
  /\ NeverCalled
  /\ callsLeft = 0
  /\ faultsLeft = 0

\* the backend answers extractTitles and extractTitlesFromMultipleComments
\* (for one comment) with the text of vin, and the parser reads the titles
AnswerCall ==
  /\ ~vret.done
  /\ \E response \in {Trim(answerText(vin, 1))} :
       vret' = [done |-> TRUE,
                single |-> titlesOfAnswer(response, "answer"),
                batch |-> titlesOfBatchAnswer(response, <<T_Arrival>>, "answer")]
  /\ UNCHANGED <<reddit, cache, aiParser, now, backend, memo, vin, harvestVars>>

NextAnswer == AnswerCall

SpecAnswer == InitAnswer /\ [][NextAnswer]_vars

\* the titles of the lines of an answer that have at least 2 characters and
\* a letter, without their markers
RECURSIVE bareTitles(_, _)
bareTitles(lines, n) ==
  IF n > Len(lines) THEN <<>>
  ELSE (IF Len(lines[n].title) >= 2 /\ \E k \in 1..Len(lines[n].title) : lines[n].title[k] \in Letter
        THEN <<lines[n].title>> ELSE <<>>)
       \o bareTitles(lines, n + 1)

\* C35: every title the AI strategy returns has its enumeration marker
\* fully stripped ("1. Title", "10) Title", "- Title" and "* Title" all give
\* "Title"), has at least 2 characters and a letter; the single-comment
\* variant returns at most 10 titles and the batched variant at most 15
C35_MarkersStripped ==
  vret.done =>
    /\ vret.single = Slice(bareTitles(vin, 1), MaxAiTitles)
    /\ vret.batch = Slice(bareTitles(vin, 1), MaxAiBatchTitles)

\* what holds of every answer: the sizes, the letter, and the caps
AnswerShape ==
  vret.done =>
    /\ Len(vret.single) <= MaxAiTitles
    /\ Len(vret.batch) <= MaxAiBatchTitles
    /\ \A n \in 1..Len(vret.batch) :
         /\ Len(vret.batch[n]) >= 2
         /\ \E k \in 1..Len(vret.batch[n]) : vret.batch[n][k] \in Letter
    /\ vret.single = Slice(vret.batch, MaxAiTitles)

\* the markers of one character are stripped
OneCharMarkers ==
  vret.done /\ (\A n \in 1..Len(vin) : Len(vin[n].marker) <= 2)
    => vret.batch = Slice(bareTitles(vin, 1), MaxAiBatchTitles)

(***************************************************************************)
(* A quick harvest for "Arrival" on the platform of the flooded community  *)
(***************************************************************************)
InitFlood ==
  /\ Started(1, MaxFaults)
  /\ reddit = "client"
  /\ backend = "flood"

FloodCall == \E limit \in Limits : QuickCallWith(T_Arrival, limit, "movie")

NextFlood ==
  \/ FloodCall
  \/ QuickResolve
  \/ QuickSearch
  \/ QuickPause
  \/ QuickBatch
  \/ QuickJoin
  \/ QuickSleep
  \/ \E k \in DOMAIN tasks : TaskFetch(k)
  \/ \E k \in DOMAIN tasks : TaskAiBatch(k)
  \/ \E k \in DOMAIN tasks : TaskAiValidate(k)
  \/ \E k \in DOMAIN tasks : TaskAiGenres(k)
  \/ \E k \in DOMAIN tasks : TaskAiSleep(k)
  \/ \E k \in DOMAIN tasks : TaskExtract(k)
  \/ \E k \in DOMAIN tasks : TaskGenres(k)

SpecFlood == InitFlood /\ [][NextFlood]_vars

\* the post is one of the first maxPostsToProcess posts the searches found
AmongFirst(p) ==
  \E n \in 1..maxPostsToProcess : n <= Len(allResults) /\ allResults[n] = p

\* C37: a quick harvest scores and processes at most maxPostsToProcess = 25
\* posts: every post of a batch the loop starts is among the first 25 posts
\* found, so that no post behind the 25th is scored or has its comments
\* fetched
C37_AtMost25Posts ==
  [][BatchStarts => \A p \in BatchPosts : AmongFirst(p)]_vars

\* the loop starts no batch at or behind position maxPostsToProcess
BatchStartsBelow25 == [][BatchStarts => i < maxPostsToProcess]_vars

(***************************************************************************)
(* Validations of one title, one after the other, as the clock advances    *)
(***************************************************************************)
\* the answers the catalog would give: no result, or one of the pool
RetryResponses == {r \in Responses : Len(r) <= 1}

\* validations are followed up to this many
MaxValidations == 3

\* the cache keys of the validations followed
RetryKeys(contentType) == {tmdbCacheKey(T_Contact, year, contentType) : year \in VYears}

\* never: the time of no failed query
Never == 0 - 1

InitRetry ==
  /\ \E credentials \in {"complete", "rejected"} : Constructed(credentials, FALSE)
  /\ vin \in [title : {T_Contact}, contentType : ContentType, response : RetryResponses]
  /\ vret = [done |-> FALSE, calls |-> 0,
             failedAt |-> [key \in RetryKeys(vin.contentType) |-> Never]]
  /\ backend = "forum"
  /\ memo = [relevance |-> <<>>, admitted |-> <<>>, titles |-> <<>>, aiTitles |-> <<>>,
             aiBatch |-> <<>>]
  /\ NeverCalled
  /\ callsLeft = 0
  /\ faultsLeft = 0

\* a caller awaits searchAndValidateTMDB(title, year, contentType); the
\* catalog answers, or the request fails.  failedAt notes, for each key, when
\* the query whose outcome the key was last fetched with failed
RetryValidate ==
  /\ vret.calls < MaxValidations
  /\ \E year \in VYears, failed \in BOOLEAN :
       LET key == tmdbCacheKey(vin.title, year, vin.contentType)
           r == searchAndValidateTMDB(cache, now, vin.title, year, vin.contentType,
                                      vin.response, failed)
       IN /\ vret' = [done |-> TRUE, calls |-> vret.calls + 1, key |-> key, at |-> now,
                      data |-> r.data, queried |-> r.queried, failed |-> failed,
                      failedAt |-> [k \in DOMAIN vret.failedAt |->
                                      IF k = key /\ r.queried
                                      THEN (IF failed THEN now ELSE Never)
                                      ELSE vret.failedAt[k]]]
          /\ cache' = r.cache
  /\ UNCHANGED <<reddit, aiParser, now, backend, memo, vin, harvestVars>>

RetryTick ==
  /\ Tick
  /\ UNCHANGED <<backend, memo, vin, vret, harvestVars>>

NextRetry ==
  \/ RetryValidate
  \/ RetryTick

SpecRetry == InitRetry /\ [][NextRetry]_vars

\* C38: a failed catalog query is cached like a successful one: once a
\* validation returned [] because its query failed, every later validation
\* of the same key less than 24 hours after it returns [] and does not query
\* the catalog
C38_FailureCached ==
  [][\A key \in DOMAIN vret.failedAt :
       /\ vret'.calls = vret.calls + 1
       /\ vret'.key = key
       /\ vret.failedAt[key] # Never
       /\ now - vret.failedAt[key] < cacheExpiry
       => /\ vret'.data = <<>>
          /\ ~vret'.queried
          /\ cache' = cache]_vars

\* twelve hours after a failed query, a validation of the key whose query
\* would have failed or found a result returned [] without a query
C38_Witness ==
  /\ vret.done
  /\ ~vret.queried
  /\ vret.data = <<>>
  /\ vret.failedAt[vret.key] = 0
  /\ vret.at = TickHours
  /\ validatedResults(vin.response, Y_1997, vin.contentType) # <<>>
  /\ validatedResults(vin.response, NoText, vin.contentType) # <<>>

(***************************************************************************)
(* Validations in flight together: the members of a Promise.all            *)
(***************************************************************************)
\* validations are followed up to this many
MaxFlights == 3

\* what the catalog answers to a query for "Contact"
ContactAnswer == <<CatalogResult(3, T_Contact, NoText, TRUE, 74, D_1997, NoText)>>

\* a validation that has not started
Flight(year) == [year |-> year, pc |-> "start", data |-> <<>>, fetched |-> <<>>]

\* the key of the validation v
flightKey(v) == tmdbCacheKey(T_Contact, vin[v].year, "movie")

InitFlights ==
  /\ Constructed("complete", FALSE)
  /\ vin \in [1..MaxFlights -> {Flight(year) : year \in VYears}]
  /\ vret = [done |-> FALSE,
             queries |-> [key \in {tmdbCacheKey(T_Contact, year, "movie") : year \in VYears}
                            |-> <<>>]]
  /\ backend = "forum"
  /\ memo = [relevance |-> <<>>, admitted |-> <<>>, titles |-> <<>>, aiTitles |-> <<>>,
             aiBatch |-> <<>>]
  /\ NeverCalled
  /\ callsLeft = 0
  /\ faultsLeft = 0

FlightsUnchanged == UNCHANGED <<reddit, aiParser, backend, memo, harvestVars>>

\* lines 50-55 and 64-79: the validation v looks its key up; a live entry is
\* returned, otherwise the fetcher is called and the query is sent.  queries
\* notes the times of the queries of each key
FlightLookup(v) ==
  /\ vin[v].pc = "start"
  /\ IF cacheHit(cache, flightKey(v), now)
     THEN /\ vin' = [vin EXCEPT ![v].pc = "done", ![v].data = cache.entries[flightKey(v)].data]
          /\ vret' = [vret EXCEPT !.done = TRUE]
     ELSE /\ vin' = [vin EXCEPT ![v].pc = "query"]
          /\ vret' = [vret EXCEPT !.done = TRUE,
                                  !.queries[flightKey(v)] = Append(@, now)]
  /\ UNCHANGED <<cache, now>>
  /\ FlightsUnchanged

\* lines 80-108 and 55: the request of v is over, with an answer or an
\* error, and the fetcher resolves
FlightAnswer(v) ==
  /\ vin[v].pc = "query"
  /\ \E failed \in BOOLEAN :
       vin' = [vin EXCEPT ![v].pc = "fetched",
                          ![v].fetched = IF failed THEN <<>>
                                         ELSE validatedResults(ContactAnswer, vin[v].year,
                                                               "movie")]
  /\ UNCHANGED <<cache, now, vret>>
  /\ FlightsUnchanged

\* lines 56-57: the value fetched is stored and returned
FlightStore(v) ==
  /\ vin[v].pc = "fetched"
  /\ cache' = cacheSet(cache, flightKey(v), vin[v].fetched, now)
  /\ vin' = [vin EXCEPT ![v].pc = "done", ![v].data = vin[v].fetched]
  /\ UNCHANGED <<now, vret>>
  /\ FlightsUnchanged

\* the clock advances while no request is pending (a request is over within
\* its timeout of ten seconds)
FlightsTick ==
  /\ \A v \in DOMAIN vin : vin[v].pc \in {"start", "done"}
  /\ Tick
  /\ UNCHANGED <<backend, memo, vin, vret, harvestVars>>

NextFlights ==
  \/ \E v \in DOMAIN vin : FlightLookup(v)
  \/ \E v \in DOMAIN vin : FlightAnswer(v)
  \/ \E v \in DOMAIN vin : FlightStore(v)
  \/ FlightsTick

SpecFlights == InitFlights /\ [][NextFlights]_vars

\* C39: within one TTL window the catalog is queried at most once per cache
\* key, also when validations of the same key run concurrently: two queries
\* of one key are at least cacheExpiry apart
C39_OneQueryPerWindow ==
  \A key \in DOMAIN vret.queries :
    \A a, b \in 1..Len(vret.queries[key]) :
      a < b => vret.queries[key][b] - vret.queries[key][a] >= cacheExpiry

\* validations one after the other query once per window: when no
\* validation of the key is in flight and the key has no live entry, the
\* last query of the key is at least cacheExpiry old
SequentialOnce ==
  \A key \in DOMAIN vret.queries :
    (/\ \A v \in DOMAIN vin : flightKey(v) = key => vin[v].pc \in {"start", "done"}
     /\ Len(vret.queries[key]) > 0
     /\ ~cacheHit(cache, key, now))
      => now - vret.queries[key][Len(vret.queries[key])] >= cacheExpiry

(***************************************************************************)
(* Harvest calls whose external calls and pauses all come to an end        *)
(***************************************************************************)
\* a step of the harvest call in progress: an external call or a pause is
\* over (it completed or it failed) and the code runs to its next await
HarvestStep ==
  \/ QuickResolve
  \/ QuickSearch
  \/ QuickPause
  \/ QuickBatch
  \/ QuickJoin
  \/ QuickSleep
  \/ \E k \in DOMAIN tasks : TaskFetch(k)
  \/ \E k \in DOMAIN tasks : TaskAiBatch(k)
  \/ \E k \in DOMAIN tasks : TaskAiValidate(k)
  \/ \E k \in DOMAIN tasks : TaskAiGenres(k)
  \/ \E k \in DOMAIN tasks : TaskAiSleep(k)
  \/ \E k \in DOMAIN tasks : TaskExtract(k)
  \/ \E k \in DOMAIN tasks : TaskGenres(k)
  \/ ComprehensiveSearch
  \/ ComprehensivePost
  \/ ComprehensiveFinish

\* a call is in progress: one of its awaits is pending, and its end is a
\* step the call can take
Awaiting == pc # "idle"

\* every await of the call in progress is over at some time: the weak
\* fairness of HarvestStep, WF_vars(HarvestStep), with ENABLED
\* <<HarvestStep>>_vars written as Awaiting, and that of the pauses
HarvestFair ==
  /\ []<>(~Awaiting) \/ []<><<HarvestStep>>_vars
  /\ WF_vars(QuickPause \/ QuickSleep)

\* an engine that is available, asked for a quick harvest of as many
\* records as are followed, or for a comprehensive harvest
InitLive ==
  /\ Started(MaxCalls, MaxFaults)
  /\ reddit = "client"
  /\ backend = "forum"

LiveCall ==
  \E contentType \in ContentType : QuickCallWith(T_Arrival, MaxLimit, contentType)

NextLive ==
  \/ LiveCall
  \/ ComprehensiveCall
  \/ HarvestStep

SpecLive == InitLive /\ [][NextLive]_vars /\ HarvestFair

\* C36: every harvest call, quick or comprehensive, eventually returns when
\* each external call and pause eventually completes or fails: a call in
\* progress leads to the state in which it has returned
C36_HarvestReturns ==
  (call.kind \in {"quick", "comprehensive"}) ~> (pc = "idle" /\ ret.done)

\* a quick harvest returned records although one of its external calls failed
C36_Witness ==
  /\ Returned("quick")
  /\ ret.faulted # {}
  /\ Len(ret.list) > 0
  /\ ret.issued # {}

====
